---- MODULE Spec2Model ----
(***************************************************************************)
(* A model of Graphics::GraphicsManager (graphics/graphics.cpp): the       *)
(* resource queues, the abandoned-handle list, the frame renderer, the     *)
(* surface reconfiguration protocol and the request bridge that carries    *)
(* surface changes from other threads to the rendering (main) thread.      *)
(***************************************************************************)
EXTENDS Integers, Sequences, FiniteSets, TLC

(* ------------------------------ bounds -------------------------------- *)

\* Threads other than the rendering thread.
NumWorkers == 1
\* Queueable resources constructed over a run (all kinds together).
MaxRes == 2
\* Low-level handles handed to abandon() over a run.
MaxHandles == 2

(* ------------------------------ threads ------------------------------- *)

Main == <<"main", 0>>
Workers == {<<"worker", i>> : i \in 1..NumWorkers}
Threads == {Main} \cup Workers

\* Common::isMainThread()
isMainThread(t) == t = Main

(* --------------------------- value domains ---------------------------- *)

Kinds == {"texture", "list", "video", "object", "guiFront"}
ResIds == 1..MaxRes
Handles == 1..MaxHandles
Distances == {1, 2}
Tags == {"", "button", "label"}
Rects == {"left", "all"}
\* Screen sizes: two widths with one height, two heights with one width.
Sizes == {<<640, 480>>, <<800, 480>>, <<800, 600>>}
Levels == {0, 2, 4}

kCursorStateStay == "stay"
kCursorStateSwitchOn == "switchOn"
kCursorStateSwitchOff == "switchOff"

VARIABLES
  \* GraphicsManager fields
  ready, fullScreen, fsaa, fsaaMax, screen, sdlMode,
  textures, listContainers, videos, objects, guiFrontObjects, mutex,
  frameSemaphore, cursor, cursorState, takeScreenshot,
  abandonTextures, abandonLists, hasAbandoned,
  \* the resources (Queueable objects) and the low-level handles
  res, glDeleted, nextHandle,
  \* the threads: position, arguments and locals of the call in progress
  pc, arg, old, ret,
  \* the request bridge (RequestMan)
  requests, serving, replied,
  \* observations of the run
  frame, owed, chres, trail, pre, gpuThreads, aborted

surfaceVars == <<ready, fullScreen, fsaa, fsaaMax, screen, sdlMode>>
queueVars == <<textures, listContainers, videos, objects, guiFrontObjects>>
frameVars == <<frameSemaphore, cursor, cursorState, takeScreenshot>>
abandonVars == <<abandonTextures, abandonLists, hasAbandoned, glDeleted, nextHandle>>
threadVars == <<pc, arg, old, ret>>
bridgeVars == <<requests, serving, replied>>
obsVars == <<chres, trail, pre>>
vars == <<surfaceVars, queueVars, mutex, frameVars, abandonVars, res, threadVars,
          bridgeVars, frame, owed, obsVars, gpuThreads, aborted>>

(* ------------------------------ helpers ------------------------------- *)

Range(s) == {s[i] : i \in 1..Len(s)}

Remove(s, x) == SelectSeq(s, LAMBDA y : y # x)

Occurrences(s, x) == Cardinality({i \in 1..Len(s) : s[i] = x})

\* The SDL surface: a null pointer, or width, height and the fullscreen flag.
NullScreen == [null |-> TRUE, w |-> 0, h |-> 0, fullscreen |-> FALSE]
Surface(w, h, fs) == [null |-> FALSE, w |-> w, h |-> h, fullscreen |-> fs]

NoRes == [kind |-> "none", life |-> "none", kicked |-> 0, gpu |-> "none",
          distance |-> 0, tag |-> "", rect |-> "all"]

\* No reconfiguration to compare with.
NoPre == [set |-> FALSE, w |-> 0, h |-> 0, fullScreen |-> FALSE, fsaa |-> 0]

NoFrame == [path |-> "none", log |-> <<>>, hit |-> FALSE]

\* The queue of a kind (GraphicsManager::get*Queue).
getQueue(k) ==
  CASE k = "texture" -> textures
    [] k = "list" -> listContainers
    [] k = "video" -> videos
    [] k = "object" -> objects
    [] k = "guiFront" -> guiFrontObjects

\* Assignment of one queue's list; the other four lists keep their members.
SetQueue(k, list) ==
  /\ textures' = IF k = "texture" THEN list ELSE textures
  /\ listContainers' = IF k = "list" THEN list ELSE listContainers
  /\ videos' = IF k = "video" THEN list ELSE videos
  /\ objects' = IF k = "object" THEN list ELSE objects
  /\ guiFrontObjects' = IF k = "guiFront" THEN list ELSE guiFrontObjects

Free(k) == mutex[k] = {}

(* ------------------------------ GraphicsManager() --------------------- *)

Init ==
  /\ ready = FALSE
  /\ fullScreen = FALSE
  /\ fsaa = 0
  /\ fsaaMax = 0
  /\ screen = NullScreen
  /\ sdlMode = NullScreen
  /\ textures = <<>>
  /\ listContainers = <<>>
  /\ videos = <<>>
  /\ objects = <<>>
  /\ guiFrontObjects = <<>>
  /\ mutex = [k \in Kinds |-> {}]
  /\ frameSemaphore = {}
  /\ cursor = FALSE
  /\ cursorState = kCursorStateStay
  /\ takeScreenshot = FALSE
  /\ abandonTextures = <<>>
  /\ abandonLists = <<>>
  /\ hasAbandoned = FALSE
  /\ res = [r \in ResIds |-> NoRes]
  /\ glDeleted = [h \in Handles |-> 0]
  /\ nextHandle = 1
  /\ pc = [t \in Threads |-> "idle"]
  /\ arg = [t \in Threads |-> <<>>]
  /\ old = [t \in Threads |-> <<>>]
  /\ ret = [t \in Threads |-> "none"]
  /\ requests = <<>>
  /\ serving = {}
  /\ replied = {}
  /\ frame = NoFrame
  /\ owed = {}
  /\ chres = {}
  /\ trail = <<>>
  /\ pre = NoPre
  /\ gpuThreads = {}
  /\ aborted = FALSE

\* A thread that is between two calls of a running process.
Idle(t) == ~aborted /\ pc[t] = "idle"

(* --------------------------- Queueable registry ----------------------- *)

\* Queueable<T>::Queueable(queue): a new resource appends itself to the queue
\* of its kind, holding the queue's mutex.
Construct(t, k, d, tag, rect) ==
  /\ Idle(t)
  /\ Free(k)
  /\ \E r \in ResIds :
       /\ res[r].life = "none"
       /\ \A q \in ResIds : q < r => res[q].life # "none"
       /\ res' = [res EXCEPT ![r] = [kind |-> k, life |-> "queued", kicked |-> 0,
                                     gpu |-> "built", distance |-> d,
                                     tag |-> tag, rect |-> rect]]
       /\ SetQueue(k, Append(getQueue(k), r))
  /\ UNCHANGED <<surfaceVars, mutex, frameVars, abandonVars, threadVars,
                 bridgeVars, frame, owed, obsVars, gpuThreads, aborted>>

\* Queueable<T>::removeFromQueue(): a queued resource erases itself, holding
\* the queue's mutex; a resource that is not queued does nothing.
RemoveFromQueue(t, r) ==
  /\ Idle(t)
  /\ res[r].life = "queued"
  /\ Free(res[r].kind)
  /\ res' = [res EXCEPT ![r].life = "removed"]
  /\ SetQueue(res[r].kind, Remove(getQueue(res[r].kind), r))
  /\ UNCHANGED <<surfaceVars, mutex, frameVars, abandonVars, threadVars,
                 bridgeVars, frame, owed, obsVars, gpuThreads, aborted>>

\* Queueable<T>::addToQueue(): a resource that left its queue joins it again.
AddToQueue(t, r) ==
  /\ Idle(t)
  /\ res[r].life = "removed"
  /\ Free(res[r].kind)
  /\ res' = [res EXCEPT ![r].life = "queued"]
  /\ SetQueue(res[r].kind, Append(getQueue(res[r].kind), r))
  /\ UNCHANGED <<surfaceVars, mutex, frameVars, abandonVars, threadVars,
                 bridgeVars, frame, owed, obsVars, gpuThreads, aborted>>

(* ----------------------------- resource queues ------------------------ *)

\* A destroy() that also tells the member that it was kicked out.
C21_MutantDestroyAll(rs, list) ==
  [r \in ResIds |-> IF r \in Range(list)
                    THEN [rs[r] EXCEPT !.gpu = "destroyed", !.kicked = @ + 1]
                    ELSE rs[r]]

\* (*x)->destroy() for every member of list.
DestroyAll(rs, list) ==
  [r \in ResIds |-> IF r \in Range(list) THEN [rs[r] EXCEPT !.gpu = "destroyed"]
                    ELSE rs[r]]

\* (*x)->rebuild() for every member of list.
RebuildAll(rs, list) ==
  [r \in ResIds |-> IF r \in Range(list) THEN [rs[r] EXCEPT !.gpu = "built"]
                    ELSE rs[r]]

\* (*x)->kickedOut() for every element of list: the resource learns that it
\* is no longer queued.
KickAll(rs, list) ==
  [r \in ResIds |-> IF r \in Range(list)
                    THEN [rs[r] EXCEPT !.kicked = @ + Occurrences(list, r),
                                       !.life = "kicked"]
                    ELSE rs[r]]

\* _textures.list.clear() and its siblings.
Cleared(list) == <<>>

\* A clear that destroys the members and empties the list without notifying.
C1_MutantClearedQueueRes(rs, list) == DestroyAll(rs, list)

\* clearTextureQueue(), clearListContainerQueue(), clearVideoQueue():
\* destroy and notify every member, then empty the list.
ClearedQueueRes(rs, list) == KickAll(DestroyAll(rs, list), list)

clearTextureQueue(t) ==
  /\ Idle(t)
  /\ Free("texture")
  /\ res' = ClearedQueueRes(res, textures)
  /\ textures' = Cleared(textures)
  /\ UNCHANGED <<surfaceVars, listContainers, videos, objects, guiFrontObjects,
                 mutex, frameVars, abandonVars, threadVars, bridgeVars, frame,
                 owed, obsVars, gpuThreads, aborted>>

clearListContainerQueue(t) ==
  /\ Idle(t)
  /\ Free("list")
  /\ res' = ClearedQueueRes(res, listContainers)
  /\ listContainers' = Cleared(listContainers)
  /\ UNCHANGED <<surfaceVars, textures, videos, objects, guiFrontObjects,
                 mutex, frameVars, abandonVars, threadVars, bridgeVars, frame,
                 owed, obsVars, gpuThreads, aborted>>

clearVideoQueue(t) ==
  /\ Idle(t)
  /\ Free("video")
  /\ res' = ClearedQueueRes(res, videos)
  /\ videos' = Cleared(videos)
  /\ UNCHANGED <<surfaceVars, textures, listContainers, objects, guiFrontObjects,
                 mutex, frameVars, abandonVars, threadVars, bridgeVars, frame,
                 owed, obsVars, gpuThreads, aborted>>

\* A clearRenderQueue() that locks the GUI-front queue before the world
\* queue.
C20_MutantClearRenderQueueLocks == <<"guiFront", "object">>

\* The two StackLocks of clearRenderQueue(), in the order of their
\* declarations.
clearRenderQueueLocks == <<"object", "guiFront">>

\* StackLock objectsLock(_objects.mutex) of clearRenderQueue()
clearRenderQueueObjectsLock(t) ==
  /\ Idle(t)
  /\ Free(clearRenderQueueLocks[1])
  /\ mutex' = [mutex EXCEPT ![clearRenderQueueLocks[1]] = {t}]
  /\ pc' = [pc EXCEPT ![t] = "cq_guiFrontLock"]
  /\ UNCHANGED <<surfaceVars, queueVars, frameVars, abandonVars, res,
                 arg, old, ret, bridgeVars, frame, owed, obsVars, gpuThreads,
                 aborted>>

\* StackLock guiFrontLock(_guiFrontObjects.mutex) of clearRenderQueue()
clearRenderQueueGuiFrontLock(t) ==
  /\ ~aborted
  /\ pc[t] = "cq_guiFrontLock"
  /\ Free(clearRenderQueueLocks[2])
  /\ mutex' = [mutex EXCEPT ![clearRenderQueueLocks[2]] = {t}]
  /\ pc' = [pc EXCEPT ![t] = "cq_clear"]
  /\ UNCHANGED <<surfaceVars, queueVars, frameVars, abandonVars, res,
                 arg, old, ret, bridgeVars, frame, owed, obsVars, gpuThreads,
                 aborted>>

\* The body of clearRenderQueue(), holding both mutexes: notify the world
\* objects, then the GUI-front objects, then empty both lists; the return
\* releases the two StackLocks.
clearRenderQueue(t) ==
  /\ ~aborted
  /\ pc[t] = "cq_clear"
  /\ res' = KickAll(KickAll(res, objects), guiFrontObjects)
  /\ objects' = Cleared(objects)
  /\ guiFrontObjects' = Cleared(guiFrontObjects)
  /\ mutex' = [k \in Kinds |-> mutex[k] \ {t}]
  /\ pc' = [pc EXCEPT ![t] = "idle"]
  /\ UNCHANGED <<surfaceVars, textures, listContainers, videos,
                 frameVars, abandonVars, arg, old, ret, bridgeVars, frame,
                 owed, obsVars, gpuThreads, aborted>>

(* --------------------------- abandoned handles ------------------------ *)

\* The ids of one abandon() call: count consecutive handles, not used before.
FreshIds(count) == [i \in 1..count |-> nextHandle + i - 1]

\* abandon(TextureID *ids, uint32 count)
abandonTextureIds(t, count) ==
  /\ Idle(t)
  /\ nextHandle + count - 1 <= MaxHandles
  /\ IF count = 0
       THEN UNCHANGED abandonVars
       ELSE /\ abandonTextures' = abandonTextures \o FreshIds(count)
            /\ hasAbandoned' = TRUE
            /\ nextHandle' = nextHandle + count
            /\ UNCHANGED <<abandonLists, glDeleted>>
  /\ UNCHANGED <<surfaceVars, queueVars, mutex, frameVars, res, threadVars,
                 bridgeVars, frame, owed, obsVars, gpuThreads, aborted>>

\* abandon(ListID ids, uint32 count)
abandonListIds(t, count) ==
  /\ Idle(t)
  /\ nextHandle + count - 1 <= MaxHandles
  /\ IF count = 0
       THEN UNCHANGED abandonVars
       ELSE /\ abandonLists' = abandonLists \o FreshIds(count)
            /\ hasAbandoned' = TRUE
            /\ nextHandle' = nextHandle + count
            /\ UNCHANGED <<abandonTextures, glDeleted>>
  /\ UNCHANGED <<surfaceVars, queueVars, mutex, frameVars, res, threadVars,
                 bridgeVars, frame, owed, obsVars, gpuThreads, aborted>>

\* The handles whose abandon() call has returned.
Abandoned == 1..(nextHandle - 1)

\* A cleanup that deletes the abandoned textures and forgets the lists.
C2_MutantDeleteAbandoned(del, texs, lists) ==
  [h \in Handles |-> del[h] + Occurrences(texs, h)]

\* glDeleteTextures(size, &_abandonTextures[0]) and one glDeleteLists(l, 1)
\* per element of _abandonLists.
DeleteAbandoned(del, texs, lists) ==
  [h \in Handles |-> del[h] + Occurrences(texs, h) + Occurrences(lists, h)]

\* The first test of cleanupAbandoned(), read without the mutex.
NeedsCleanup == hasAbandoned

\* cleanupAbandoned() past its first test: under _abandonMutex, delete every
\* pending handle, clear both containers and reset the flag.
cleanupAbandoned(t) ==
  /\ ~aborted
  /\ pc[t] = "rs_cleanup"
  /\ glDeleted' = DeleteAbandoned(glDeleted, abandonTextures, abandonLists)
  /\ abandonTextures' = <<>>
  /\ abandonLists' = <<>>
  /\ hasAbandoned' = FALSE
  /\ gpuThreads' = gpuThreads \cup {t}
  /\ pc' = [pc EXCEPT ![t] = "rs_lockTry"]
  /\ UNCHANGED <<surfaceVars, queueVars, mutex, frameVars, nextHandle, res,
                 arg, old, ret, bridgeVars, frame, owed, obsVars, aborted>>

(* ------------------------------ frame lock, cursor -------------------- *)

\* A lockFrame() without the test of the thread: the main thread takes the
\* semaphore too.
C9_MutantLockFrame(t) ==
  /\ Idle(t)
  /\ frameSemaphore = {}
  /\ frameSemaphore' = {t}
  /\ UNCHANGED <<surfaceVars, queueVars, mutex, cursor, cursorState,
                 takeScreenshot, abandonVars, res, threadVars, bridgeVars,
                 frame, owed, obsVars, gpuThreads, aborted>>

\* lockFrame(): only a thread other than the main thread takes the semaphore.
lockFrame(t) ==
  /\ Idle(t)
  /\ IF isMainThread(t)
       THEN UNCHANGED frameSemaphore
       ELSE frameSemaphore = {} /\ frameSemaphore' = {t}
  /\ UNCHANGED <<surfaceVars, queueVars, mutex, cursor, cursorState,
                 takeScreenshot, abandonVars, res, threadVars, bridgeVars,
                 frame, owed, obsVars, gpuThreads, aborted>>

\* unlockFrame(), called by the thread that called lockFrame().
unlockFrame(t) ==
  /\ Idle(t)
  /\ IF isMainThread(t)
       THEN UNCHANGED frameSemaphore
       ELSE frameSemaphore = {t} /\ frameSemaphore' = {}
  /\ UNCHANGED <<surfaceVars, queueVars, mutex, cursor, cursorState,
                 takeScreenshot, abandonVars, res, threadVars, bridgeVars,
                 frame, owed, obsVars, gpuThreads, aborted>>

\* setCursor(cursor): under the frame lock, which the call takes on every
\* thread; it waits while another thread holds it.
setCursor(t, c) ==
  /\ Idle(t)
  /\ frameSemaphore = {}
  /\ cursor' = c
  /\ UNCHANGED <<surfaceVars, queueVars, mutex, frameSemaphore, cursorState,
                 takeScreenshot, abandonVars, res, threadVars, bridgeVars,
                 frame, owed, obsVars, gpuThreads, aborted>>

\* takeScreenshot(): under the frame lock.
requestScreenshot(t) ==
  /\ Idle(t)
  /\ frameSemaphore = {}
  /\ takeScreenshot' = TRUE
  /\ UNCHANGED <<surfaceVars, queueVars, mutex, frameSemaphore, cursor,
                 cursorState, abandonVars, res, threadVars, bridgeVars,
                 frame, owed, obsVars, gpuThreads, aborted>>

\* showCursor(show): under _cursorMutex.
showCursor(t, show) ==
  /\ Idle(t)
  /\ cursorState' = IF show THEN kCursorStateSwitchOn ELSE kCursorStateSwitchOff
  /\ UNCHANGED <<surfaceVars, queueVars, mutex, frameSemaphore, cursor,
                 takeScreenshot, abandonVars, res, threadVars, bridgeVars,
                 frame, owed, obsVars, gpuThreads, aborted>>

(* ------------------------------ sorting, hit test --------------------- *)

\* A comparison that puts the nearer object first.
C16_MutantQueueComp(rs, a, b) == rs[a].distance < rs[b].distance

\* queueComp(a, b): a is drawn before b.
queueComp(rs, a, b) == rs[a].distance > rs[b].distance

\* Insert x behind every element it does not precede (std::list::sort is a
\* stable merge sort: equal elements keep their order).
RECURSIVE InsertSorted(_, _, _)
InsertSorted(rs, s, x) ==
  IF s = <<>> THEN <<x>>
  ELSE IF queueComp(rs, x, Head(s)) THEN <<x>> \o s
  ELSE <<Head(s)>> \o InsertSorted(rs, Tail(s), x)

\* list.sort(queueComp)
RECURSIVE SortQueue(_, _)
SortQueue(rs, s) ==
  IF s = <<>> THEN <<>>
  ELSE InsertSorted(rs, SortQueue(rs, SubSeq(s, 1, Len(s) - 1)), s[Len(s)])

\* Renderable::isIn(x, y) for the two shapes of the layout: the left half of
\* the screen, and the whole screen.
isIn(rs, r, x, y) == rs[r].rect = "all" \/ x < 0

\* A scan in drawing order: the tagged object that is drawn first wins.
RECURSIVE C15_MutantScanReverse(_, _, _, _)
C15_MutantScanReverse(rs, s, x, y) ==
  IF s = <<>> THEN ""
  ELSE LET r == s[1] IN
       IF rs[r].tag # "" /\ isIn(rs, r, x, y) THEN rs[r].tag
       ELSE C15_MutantScanReverse(rs, Tail(s), x, y)

\* The scan of getObjectAt(): the elements in reverse drawing order, the
\* first tagged one that contains the point; kNoTag when there is none.
RECURSIVE ScanReverse(_, _, _, _)
ScanReverse(rs, s, x, y) ==
  IF s = <<>> THEN ""
  ELSE LET r == s[Len(s)] IN
       IF rs[r].tag # "" /\ isIn(rs, r, x, y) THEN rs[r].tag
       ELSE ScanReverse(rs, SubSeq(s, 1, Len(s) - 1), x, y)

\* A renderScene() call of the main thread is between its test of the video
\* queue and its return.
InFrame == frame.path \in {"video", "normal"} /\ pc[Main] # "done"

\* getObjectAt(x, y): under the GUI-front mutex, sort the GUI-front queue,
\* map the screen coordinates to OpenGL coordinates and scan.  _screen is
\* dereferenced: a null surface ends the process.
getObjectAt(t, x, y) ==
  /\ Idle(t)
  /\ Free("guiFront")
  /\ guiFrontObjects' = SortQueue(res, guiFrontObjects)
  /\ IF screen.null
       THEN /\ aborted' = TRUE
            /\ UNCHANGED <<pc, ret, frame>>
       ELSE /\ pc' = [pc EXCEPT ![t] = "done"]
            /\ ret' = [ret EXCEPT ![t] =
                 LET glx == (2 * x - screen.w) \div 2
                     gly == (2 * (screen.h - y) - screen.h) \div 2
                 IN  ScanReverse(res, guiFrontObjects', glx, gly)]
            /\ frame' = IF InFrame THEN [frame EXCEPT !.hit = TRUE] ELSE frame
            /\ UNCHANGED aborted
  /\ UNCHANGED <<surfaceVars, textures, listContainers, videos, objects, mutex,
                 frameVars, abandonVars, res, arg, old, bridgeVars,
                 owed, obsVars, gpuThreads>>

(* ------------------------------ renderScene --------------------------- *)

Event(name, r) == <<name, r>>

Logged(f, events) == [f EXCEPT !.log = @ \o events]

\* One event per member of list, in list order.
EventsOf(name, list) == [i \in 1..Len(list) |-> Event(name, list[i])]

\* Common::enforceMainThread(): the call goes on only on the main thread.
enforceMainThread(t) == isMainThread(t)

\* renderScene(), up to the first test of cleanupAbandoned().  On another
\* thread than the main one the call throws.
renderScene(t) ==
  /\ Idle(t)
  /\ ready
  /\ IF enforceMainThread(t)
       THEN /\ pc' = [pc EXCEPT ![t] = IF NeedsCleanup THEN "rs_cleanup"
                                       ELSE "rs_lockTry"]
            /\ frame' = [NoFrame EXCEPT !.path = "called"]
            /\ owed' = Abandoned
       ELSE UNCHANGED <<pc, frame, owed>>
  /\ UNCHANGED <<surfaceVars, queueVars, mutex, frameVars, abandonVars, res,
                 arg, old, ret, bridgeVars, obsVars, gpuThreads, aborted>>

\* _frameSemaphore.lockTry() succeeds.
renderSceneLocked(t) ==
  /\ ~aborted
  /\ pc[t] = "rs_lockTry"
  /\ frameSemaphore = {}
  /\ frameSemaphore' = {t}
  /\ pc' = [pc EXCEPT ![t] = "rs_videosLock"]
  /\ frame' = [frame EXCEPT !.path = "locked"]
  /\ UNCHANGED <<surfaceVars, queueVars, mutex, cursor, cursorState,
                 takeScreenshot, abandonVars, res, arg, old, ret, bridgeVars,
                 owed, obsVars, gpuThreads, aborted>>

\* A renderScene() that goes on without the frame lock when lockTry() fails.
C10_MutantRenderSceneDropped(t) ==
  /\ ~aborted
  /\ pc[t] = "rs_lockTry"
  /\ frameSemaphore # {}
  /\ pc' = [pc EXCEPT ![t] = "rs_videosLock"]
  /\ frame' = [frame EXCEPT !.path = "dropped"]
  /\ UNCHANGED <<surfaceVars, queueVars, mutex, frameVars, abandonVars, res,
                 arg, old, ret, bridgeVars, owed, obsVars, gpuThreads, aborted>>

\* _frameSemaphore.lockTry() fails: return.
renderSceneDropped(t) ==
  /\ ~aborted
  /\ pc[t] = "rs_lockTry"
  /\ frameSemaphore # {}
  /\ pc' = [pc EXCEPT ![t] = "done"]
  /\ ret' = [ret EXCEPT ![t] = "dropped"]
  /\ frame' = [frame EXCEPT !.path = "dropped"]
  /\ UNCHANGED <<surfaceVars, queueVars, mutex, frameVars, abandonVars, res,
                 arg, old, bridgeVars, owed, obsVars, gpuThreads, aborted>>

\* StackLock videosLock(_videos.mutex), then the test of _cursorState, which
\* is read without _cursorMutex.
renderSceneVideosLock(t) ==
  /\ ~aborted
  /\ pc[t] = "rs_videosLock"
  /\ Free("video")
  /\ mutex' = [mutex EXCEPT !["video"] = {t}]
  /\ pc' = [pc EXCEPT ![t] = IF cursorState # kCursorStateStay
                             THEN "rs_cursorSwitch" ELSE "rs_clear"]
  /\ UNCHANGED <<surfaceVars, queueVars, frameVars, abandonVars, res,
                 arg, old, ret, bridgeVars, frame, owed, obsVars, gpuThreads,
                 aborted>>

\* A handleCursorSwitch() that leaves the state as it found it.
C22_MutantHandleCursorSwitch(t) ==
  /\ ~aborted
  /\ pc[t] = "rs_cursorSwitch"
  /\ frame' = IF cursorState = kCursorStateSwitchOn
                THEN Logged(frame, <<Event("SDL_ShowCursor", 1)>>)
              ELSE IF cursorState = kCursorStateSwitchOff
                THEN Logged(frame, <<Event("SDL_ShowCursor", 0)>>)
              ELSE frame
  /\ pc' = [pc EXCEPT ![t] = "rs_clear"]
  /\ UNCHANGED <<surfaceVars, queueVars, mutex, frameVars, abandonVars, res,
                 arg, old, ret, bridgeVars, owed, obsVars, gpuThreads, aborted>>

\* handleCursorSwitch(): under _cursorMutex, show or hide the system cursor
\* as the state says, and reset the state.
handleCursorSwitch(t) ==
  /\ ~aborted
  /\ pc[t] = "rs_cursorSwitch"
  /\ frame' = IF cursorState = kCursorStateSwitchOn
                THEN Logged(frame, <<Event("SDL_ShowCursor", 1)>>)
              ELSE IF cursorState = kCursorStateSwitchOff
                THEN Logged(frame, <<Event("SDL_ShowCursor", 0)>>)
              ELSE frame
  /\ cursorState' = kCursorStateStay
  /\ pc' = [pc EXCEPT ![t] = "rs_clear"]
  /\ UNCHANGED <<surfaceVars, queueVars, mutex, frameSemaphore, cursor,
                 takeScreenshot, abandonVars, res, arg, old, ret, bridgeVars,
                 owed, obsVars, gpuThreads, aborted>>

\* A renderScene() whose video branch is not taken: the videos are left
\* alone and the scene is drawn.
C5_MutantRenderSceneClear(t) ==
  /\ ~aborted
  /\ pc[t] = "rs_clear"
  /\ frame' = [Logged(frame, <<Event("glClear", 0)>>) EXCEPT
                 !.path = IF videos # <<>> THEN "video" ELSE "normal"]
  /\ pc' = [pc EXCEPT ![t] = "rs_objectsLock"]
  /\ UNCHANGED old
  /\ UNCHANGED <<surfaceVars, queueVars, mutex, frameVars, abandonVars, res,
                 arg, ret, bridgeVars, owed, obsVars, gpuThreads, aborted>>

\* glClear(), then the test of _videos.list.empty().
renderSceneClear(t) ==
  /\ ~aborted
  /\ pc[t] = "rs_clear"
  /\ IF videos # <<>>
       THEN /\ frame' = [Logged(frame, <<Event("glClear", 0)>>) EXCEPT !.path = "video"]
            /\ pc' = [pc EXCEPT ![t] = "rs_video"]
            /\ old' = [old EXCEPT ![t] = <<1>>]
       ELSE /\ frame' = [Logged(frame, <<Event("glClear", 0)>>) EXCEPT !.path = "normal"]
            /\ pc' = [pc EXCEPT ![t] = "rs_objectsLock"]
            /\ UNCHANGED old
  /\ UNCHANGED <<surfaceVars, queueVars, mutex, frameVars, abandonVars, res,
                 arg, ret, bridgeVars, owed, obsVars, gpuThreads, aborted>>

\* _videos.list.erase(video): the list without its i-th element.
Erase(list, i) == SubSeq(list, 1, i - 1) \o SubSeq(list, i + 1, Len(list))

\* What incrementing the end() iterator of a std::list does is undefined: the
\* node-based implementations step from the sentinel to the first element
\* ("wrap"), a checked-iterator build ends the process ("abort").
IncrementEndOutcomes == {"wrap", "abort"}

\* A video loop that erases a finished video without destroy() and
\* kickedOut(), so that the video is still as it was when it is no longer
\* a member.
C25_MutantRenderSceneVideo(t) ==
  /\ ~aborted
  /\ pc[t] = "rs_video"
  /\ ~screen.null
  /\ \E playing \in BOOLEAN :
       LET i == old[t][1]
           list == IF playing THEN videos ELSE Erase(videos, i)
           next == IF playing THEN i + 1 ELSE i
           done == next > Len(list)
       IN
       /\ videos' = list
       /\ frame' = Logged(frame, <<Event("video", videos[i])>>)
       /\ pc' = [pc EXCEPT ![t] = IF done THEN "rs_finish" ELSE "rs_video"]
       /\ old' = [old EXCEPT ![t] = IF done THEN <<>> ELSE <<next>>]
  /\ UNCHANGED <<surfaceVars, textures, listContainers, objects, guiFrontObjects,
                 mutex, frameVars, abandonVars, res, arg, ret, bridgeVars, owed,
                 obsVars, gpuThreads, aborted>>

\* One pass of the video loop with the iterator on the i-th element: render
\* the video; one that is no longer playing is destroyed, notified and
\* erased, which leaves the iterator on the next element; then the loop's
\* ++video.  The iterator index Len + 1 is end().
renderSceneVideo(t) ==
  /\ ~aborted
  /\ pc[t] = "rs_video"
  /\ LET i == old[t][1]
         v == videos[i]
     IN
     IF screen.null
       THEN /\ aborted' = TRUE
            /\ UNCHANGED <<videos, res, frame, pc, old>>
       ELSE \E playing \in BOOLEAN, outcome \in IncrementEndOutcomes :
         LET list == IF playing THEN videos ELSE Erase(videos, i)
             atEnd == ~playing /\ i > Len(list)
             next == IF atEnd THEN 1 ELSE i + 1
             done == next > Len(list)
         IN
         /\ videos' = list
         /\ res' = IF playing THEN res
                   ELSE [res EXCEPT ![v].gpu = "destroyed",
                                    ![v].kicked = @ + 1, ![v].life = "kicked"]
         /\ frame' = Logged(frame, <<Event("video", v)>>
                              \o (IF playing THEN <<>>
                                  ELSE <<Event("kickedOut", v)>>))
         /\ IF atEnd /\ outcome = "abort"
              THEN /\ aborted' = TRUE
                   /\ UNCHANGED <<pc, old>>
              ELSE /\ UNCHANGED aborted
                   /\ (~atEnd => outcome = "wrap")
                   /\ pc' = [pc EXCEPT ![t] = IF done THEN "rs_finish" ELSE "rs_video"]
                   /\ old' = [old EXCEPT ![t] = IF done THEN <<>> ELSE <<next>>]
  /\ UNCHANGED <<surfaceVars, textures, listContainers, objects, guiFrontObjects,
                 mutex, frameVars, abandonVars, arg, ret, bridgeVars, owed,
                 obsVars, gpuThreads>>

\* StackLock objectsLock(_objects.mutex)
renderSceneObjectsLock(t) ==
  /\ ~aborted
  /\ pc[t] = "rs_objectsLock"
  /\ Free("object")
  /\ mutex' = [mutex EXCEPT !["object"] = {t}]
  /\ pc' = [pc EXCEPT ![t] = "rs_guiFrontLock"]
  /\ UNCHANGED <<surfaceVars, queueVars, frameVars, abandonVars, res,
                 arg, old, ret, bridgeVars, frame, owed, obsVars, gpuThreads,
                 aborted>>

\* StackLock guiFrontLock(_guiFrontObjects.mutex)
renderSceneGuiFrontLock(t) ==
  /\ ~aborted
  /\ pc[t] = "rs_guiFrontLock"
  /\ Free("guiFront")
  /\ mutex' = [mutex EXCEPT !["guiFront"] = {t}]
  /\ pc' = [pc EXCEPT ![t] = "rs_scene"]
  /\ UNCHANGED <<surfaceVars, queueVars, frameVars, abandonVars, res,
                 arg, old, ret, bridgeVars, frame, owed, obsVars, gpuThreads,
                 aborted>>

\* A normal path that draws the world objects as it tells them of the new
\* frame, before the GUI-front objects have been told.
C23_MutantSceneEvents(rs, world, gui, withCursor) ==
  EventsOf("newFrame", world)
    \o EventsOf("world", SortQueue(rs, world))
    \o EventsOf("newFrame", gui)
    \o EventsOf("guiFront", SortQueue(rs, gui))
    \o (IF withCursor THEN <<Event("cursor", 0)>> ELSE <<>>)

\* The events of the normal path: newFrame() for the world and the GUI-front
\* objects, both sorts, the world objects drawn, the GUI-front objects
\* drawn, the cursor drawn when one is set.
SceneEvents(rs, world, gui, withCursor) ==
  EventsOf("newFrame", world) \o EventsOf("newFrame", gui)
    \o EventsOf("world", SortQueue(rs, world))
    \o EventsOf("guiFront", SortQueue(rs, gui))
    \o (IF withCursor THEN <<Event("cursor", 0)>> ELSE <<>>)

\* The normal path, under the frame lock and the three queue mutexes.
\* _screen is dereferenced for the viewport: a null surface ends the process.
renderSceneScene(t) ==
  /\ ~aborted
  /\ pc[t] = "rs_scene"
  /\ IF screen.null
       THEN /\ aborted' = TRUE
            /\ UNCHANGED <<objects, guiFrontObjects, frame, pc>>
       ELSE /\ objects' = SortQueue(res, objects)
            /\ guiFrontObjects' = SortQueue(res, guiFrontObjects)
            /\ frame' = Logged(frame, SceneEvents(res, objects, guiFrontObjects, cursor))
            /\ pc' = [pc EXCEPT ![t] = "rs_finish"]
            /\ UNCHANGED aborted
  /\ UNCHANGED <<surfaceVars, textures, listContainers, videos, mutex,
                 frameVars, abandonVars, res, arg, old, ret, bridgeVars, owed,
                 obsVars, gpuThreads>>

\* The end of both paths: SDL_GL_SwapBuffers(), the screenshot when one was
\* asked for, _fpsCounter->finishedFrame(), _frameSemaphore.unlock().
FinishEvents(shot) ==
  <<Event("SDL_GL_SwapBuffers", 0)>>
    \o (IF shot THEN <<Event("takeScreenshot", 0)>> ELSE <<>>)
    \o <<Event("finishedFrame", 0)>>

\* An end of the frame that keeps the frame lock.
C24_MutantRenderSceneFinish(t) ==
  /\ ~aborted
  /\ pc[t] = "rs_finish"
  /\ frame' = Logged(frame, FinishEvents(takeScreenshot))
  /\ takeScreenshot' = FALSE
  /\ gpuThreads' = gpuThreads \cup {t}
  /\ pc' = [pc EXCEPT ![t] = "rs_return"]
  /\ UNCHANGED <<surfaceVars, queueVars, mutex, frameSemaphore, cursor,
                 cursorState, abandonVars, res, arg, old, ret, bridgeVars,
                 owed, obsVars, aborted>>

renderSceneFinish(t) ==
  /\ ~aborted
  /\ pc[t] = "rs_finish"
  /\ frame' = Logged(frame, FinishEvents(takeScreenshot))
  /\ takeScreenshot' = FALSE
  /\ gpuThreads' = gpuThreads \cup {t}
  /\ frameSemaphore' = {}
  /\ pc' = [pc EXCEPT ![t] = "rs_return"]
  /\ UNCHANGED <<surfaceVars, queueVars, mutex, cursor, cursorState,
                 abandonVars, res, arg, old, ret, bridgeVars, owed, obsVars,
                 aborted>>

\* The return of a rendered frame: the StackLocks on the queues are released.
renderSceneReturn(t) ==
  /\ ~aborted
  /\ pc[t] = "rs_return"
  /\ mutex' = [k \in Kinds |-> mutex[k] \ {t}]
  /\ pc' = [pc EXCEPT ![t] = "done"]
  /\ ret' = [ret EXCEPT ![t] = "rendered"]
  /\ UNCHANGED <<surfaceVars, queueVars, frameVars, abandonVars, res,
                 arg, old, bridgeVars, frame, owed, obsVars, gpuThreads,
                 aborted>>

(* ------------------------------ the surface --------------------------- *)

\* SDL_SetVideoMode(): the new surface, or a null pointer when the platform
\* rejects the mode.
SDL_SetVideoMode(w, h, fs, ok) == IF ok THEN Surface(w, h, fs) ELSE NullScreen

\* The levels probeFSAA() tries, from the highest down.
ProbeLevels == {32, 16, 8, 4, 2}

Highest(S) == CHOOSE x \in S : \A y \in S : y <= x

\* probeFSAA(): the highest level the platform accepts a video mode with, 0
\* when it accepts none.
probeFSAA(supported) ==
  IF supported \cap ProbeLevels = {} THEN 0
  ELSE Highest(supported \cap ProbeLevels)

\* A destroyContext() that leaves the textures alone.
C18_MutantDestroyContext(rs) ==
  DestroyAll(DestroyAll(rs, videos), listContainers)

\* destroyContext(): destroyVideos(), destroyListContainers(), destroyTextures().
destroyContext(rs) ==
  DestroyAll(DestroyAll(DestroyAll(rs, videos), listContainers), textures)

\* rebuildContext() past glewInit() and setupScene(): rebuildTextures(),
\* rebuildListContainers(), rebuildVideos().
rebuildContext(rs) ==
  RebuildAll(RebuildAll(RebuildAll(rs, textures), listContainers), videos)

\* The destroy() calls of destroyContext() and the rebuild() calls of
\* rebuildContext(), in the order they are made.
destroyCalls ==
  EventsOf("destroy", videos) \o EventsOf("destroy", listContainers)
    \o EventsOf("destroy", textures)

rebuildCalls ==
  EventsOf("rebuild", textures) \o EventsOf("rebuild", listContainers)
    \o EventsOf("rebuild", videos)

\* getScreenWidth(), getScreenHeight()
getScreenWidth == IF screen.null THEN 0 ELSE screen.w
getScreenHeight == IF screen.null THEN 0 ELSE screen.h

\* What getScreenWidth(), getScreenHeight(), isFullScreen() and
\* getCurrentFSAA() return.
Snapshot == [set |-> TRUE, w |-> getScreenWidth, h |-> getScreenHeight,
             fullScreen |-> fullScreen, fsaa |-> fsaa]

InitOutcomes == {"ok", "noVideoMode", "noGlew", "fsaaRejected",
                 "fsaaRevertFailed", "noGlewRebuild"}

\* init(): initSize() with the configured width, height and fullscreen flag
\* (probing the FSAA maximum), setupScene(), then setFSAA() with the
\* configured level when it differs from the current one.  Each outcome but
\* "ok" and "fsaaRejected" is an exception, which leaves the manager not
\* ready.  It runs once: a process that holds a surface does not run it
\* again.
init(t, width, height, fs, supported, level, outcome) ==
  /\ Idle(t)
  /\ ~ready
  /\ sdlMode.null
  /\ IF ~enforceMainThread(t)
       THEN UNCHANGED <<surfaceVars, res, gpuThreads>>
       ELSE LET max == probeFSAA(supported)
                changes == level # fsaa /\ level <= max
            IN
            /\ outcome \in {"fsaaRejected", "fsaaRevertFailed", "noGlewRebuild"}
                 => changes
            /\ fullScreen' = fs
            /\ fsaaMax' = max
            /\ screen' = IF outcome \in {"noVideoMode", "fsaaRevertFailed"}
                           THEN NullScreen ELSE Surface(width, height, fs)
            /\ sdlMode' = IF outcome = "noVideoMode" THEN sdlMode
                          ELSE Surface(width, height, fs)
            /\ fsaa' = IF changes /\ outcome \in {"ok", "noGlewRebuild"}
                         THEN level ELSE fsaa
            /\ ready' = (outcome \in {"ok", "fsaaRejected"})
            /\ res' = IF ~changes \/ outcome \in {"noVideoMode", "noGlew"} THEN res
                      ELSE IF outcome \in {"ok", "fsaaRejected"}
                        THEN rebuildContext(destroyContext(res))
                      ELSE destroyContext(res)
            /\ gpuThreads' = gpuThreads \cup {t}
  /\ UNCHANGED <<queueVars, mutex, frameVars, abandonVars, threadVars,
                 bridgeVars, frame, owed, obsVars, aborted>>

\* A deinit() without the test of _ready.
C11_MutantDeinit(t) ==
  /\ Idle(t)
  /\ IF ~enforceMainThread(t)
       THEN UNCHANGED <<ready, res, queueVars>>
       ELSE /\ \A k \in Kinds : Free(k)
            /\ res' = KickAll(KickAll(
                        ClearedQueueRes(ClearedQueueRes(ClearedQueueRes(
                          res, videos), listContainers), textures),
                        objects), guiFrontObjects)
            /\ videos' = Cleared(videos)
            /\ listContainers' = Cleared(listContainers)
            /\ textures' = Cleared(textures)
            /\ objects' = Cleared(objects)
            /\ guiFrontObjects' = Cleared(guiFrontObjects)
            /\ ready' = FALSE
  /\ UNCHANGED <<fullScreen, fsaa, fsaaMax, screen, sdlMode, mutex, frameVars,
                 abandonVars, threadVars, bridgeVars, frame, owed, obsVars,
                 gpuThreads, aborted>>

\* deinit(): on a ready manager, clearVideoQueue(), clearListContainerQueue(),
\* clearTextureQueue(), clearRenderQueue(), SDL_Quit().
deinit(t) ==
  /\ Idle(t)
  /\ IF ~enforceMainThread(t)
       THEN UNCHANGED <<ready, res, queueVars>>
       ELSE IF ~ready
       THEN UNCHANGED <<ready, res, queueVars>>
       ELSE /\ \A k \in Kinds : Free(k)
            /\ res' = KickAll(KickAll(
                        ClearedQueueRes(ClearedQueueRes(ClearedQueueRes(
                          res, videos), listContainers), textures),
                        objects), guiFrontObjects)
            /\ videos' = Cleared(videos)
            /\ listContainers' = Cleared(listContainers)
            /\ textures' = Cleared(textures)
            /\ objects' = Cleared(objects)
            /\ guiFrontObjects' = Cleared(guiFrontObjects)
            /\ ready' = FALSE
  /\ UNCHANGED <<fullScreen, fsaa, fsaaMax, screen, sdlMode, mutex, frameVars,
                 abandonVars, threadVars, bridgeVars, frame, owed, obsVars,
                 gpuThreads, aborted>>

(* ------------------------------ request bridge ------------------------ *)

\* RequestMan.dispatchAndWait(), first half: the request joins the queue of
\* the rendering thread and the caller waits for the reply.
Dispatched(t, op, a) == Append(requests, [from |-> t, op |-> op, a |-> a])

\* A reply that waits for its requester outlives a later mode change.
Stale(rs) == {[r EXCEPT !.stale = TRUE] : r \in rs}

\* The end of a call: the result is returned; when the call served a
\* request, the reply is signalled to the requester.  The reply carries what
\* the call did for the request.
Return(t, result, onBehalf, did) ==
  /\ pc' = [pc EXCEPT ![t] = "done"]
  /\ ret' = [ret EXCEPT ![t] = result]
  /\ arg' = [arg EXCEPT ![t] = <<>>]
  /\ old' = [old EXCEPT ![t] = <<>>]
  /\ serving' = {}
  /\ replied' = replied \cup
       {[to |-> w, did |-> did, stale |-> FALSE] : w \in onBehalf}

\* A call that ends with an exception: no reply is signalled.
Throw(t) ==
  /\ pc' = [pc EXCEPT ![t] = "done"]
  /\ ret' = [ret EXCEPT ![t] = "exception"]
  /\ arg' = [arg EXCEPT ![t] = <<>>]
  /\ old' = [old EXCEPT ![t] = <<>>]
  /\ serving' = {}
  /\ UNCHANGED replied

(* ------------------------------ setFSAA ------------------------------- *)

\* A setFSAA() that has no test for the current level.
C8_MutantSameLevel(level) == FALSE

\* The two tests of setFSAA(): nothing to do, and no support for the level.
SameLevel(level) == fsaa = level

\* A setFSAA() that has no test of the level against the maximum.
C7_MutantUnsupported(level) == FALSE

Unsupported(level) == level > fsaaMax

\* setFSAA(level) on the main thread, up to destroyContext().
setFSAAMain(t, level, onBehalf) ==
  /\ chres' = {}
  /\ trail' = <<>>
  /\ UNCHANGED aborted
  /\ IF SameLevel(level)
       THEN /\ Return(t, "true", onBehalf, <<>>)
            /\ pre' = NoPre
            /\ UNCHANGED fsaa
     ELSE IF Unsupported(level)
       THEN /\ Return(t, "false", onBehalf, <<>>)
            /\ pre' = NoPre
            /\ UNCHANGED fsaa
     ELSE /\ pre' = Snapshot
          /\ old' = [old EXCEPT ![t] = <<fsaa>>]
          /\ fsaa' = level
          /\ arg' = [arg EXCEPT ![t] = <<level>>]
          /\ pc' = [pc EXCEPT ![t] = "fsaa_destroy"]
          /\ serving' = onBehalf
          /\ UNCHANGED <<ret, replied>>

\* setFSAA(level): another thread than the main one sends a request.
setFSAA(t, level) ==
  /\ Idle(t)
  /\ ready
  /\ IF ~isMainThread(t)
       THEN /\ requests' = Dispatched(t, "fsaa", <<level>>)
            /\ pc' = [pc EXCEPT ![t] = "fsaa_wait"]
            /\ arg' = [arg EXCEPT ![t] = <<level>>]
            /\ UNCHANGED <<old, ret, serving, replied, fsaa, obsVars, aborted>>
       ELSE /\ setFSAAMain(t, level, {})
            /\ UNCHANGED requests
  /\ UNCHANGED <<ready, fullScreen, fsaaMax, screen, sdlMode, queueVars, mutex,
                 frameVars, abandonVars, res, frame, owed, gpuThreads>>

\* The requester after dispatchAndWait(): return _fsaa == level.
setFSAAReturn(t) ==
  /\ ~aborted
  /\ pc[t] = "fsaa_wait"
  /\ \E r \in replied :
       /\ r.to = t
       /\ replied' = replied \ {r}
  /\ ret' = [ret EXCEPT ![t] = IF fsaa = arg[t][1] THEN "true" ELSE "false"]
  /\ pc' = [pc EXCEPT ![t] = "done"]
  /\ arg' = [arg EXCEPT ![t] = <<>>]
  /\ UNCHANGED <<surfaceVars, queueVars, mutex, frameVars, abandonVars, res,
                 old, requests, serving, frame, owed, obsVars, gpuThreads,
                 aborted>>

setFSAADestroy(t) ==
  /\ ~aborted
  /\ pc[t] = "fsaa_destroy"
  /\ res' = destroyContext(res)
  /\ trail' = Append(trail, "destroy")
  /\ gpuThreads' = gpuThreads \cup {t}
  /\ pc' = [pc EXCEPT ![t] = "fsaa_mode"]
  /\ UNCHANGED <<surfaceVars, queueVars, mutex, frameVars, abandonVars,
                 arg, old, ret, bridgeVars, frame, owed, chres, pre, aborted>>

\* flags = _screen->flags; _screen = SDL_SetVideoMode(0, 0, 0, flags): the
\* platform keeps the current width and height.
setFSAAMode(t) ==
  /\ ~aborted
  /\ pc[t] = "fsaa_mode"
  /\ IF screen.null
       THEN /\ aborted' = TRUE
            /\ UNCHANGED <<screen, sdlMode, old, trail, replied, pc, gpuThreads>>
       ELSE \E ok \in BOOLEAN :
            /\ screen' = SDL_SetVideoMode(sdlMode.w, sdlMode.h, screen.fullscreen, ok)
            /\ sdlMode' = IF ok THEN screen' ELSE sdlMode
            /\ old' = [old EXCEPT ![t] = <<old[t][1], screen.fullscreen>>]
            /\ trail' = Append(trail, "mode")
            /\ replied' = Stale(replied)
            /\ gpuThreads' = gpuThreads \cup {t}
            /\ pc' = [pc EXCEPT ![t] = IF ok THEN "fsaa_rebuild" ELSE "fsaa_revert"]
            /\ UNCHANGED aborted
  /\ UNCHANGED <<ready, fullScreen, fsaa, fsaaMax, queueVars, mutex, frameVars,
                 abandonVars, res, arg, ret, requests, serving, frame, owed,
                 chres, pre>>

\* A revert that leaves _fsaa at the level that was refused.
C6_MutantSetFSAARevert(t) ==
  /\ ~aborted
  /\ pc[t] = "fsaa_revert"
  /\ UNCHANGED fsaa
  /\ trail' = Append(trail, "revert")
  /\ gpuThreads' = gpuThreads \cup {t}
  /\ \E ok \in BOOLEAN :
       /\ screen' = SDL_SetVideoMode(sdlMode.w, sdlMode.h, old[t][2], ok)
       /\ IF ok
            THEN /\ pc' = [pc EXCEPT ![t] = "fsaa_rebuild"]
                 /\ UNCHANGED <<arg, old, ret, serving>>
            ELSE /\ pc' = [pc EXCEPT ![t] = "done"]
                 /\ ret' = [ret EXCEPT ![t] = "exception"]
                 /\ arg' = [arg EXCEPT ![t] = <<>>]
                 /\ old' = [old EXCEPT ![t] = <<>>]
                 /\ serving' = {}
  /\ UNCHANGED <<ready, fullScreen, fsaaMax, sdlMode, queueVars, mutex,
                 frameVars, abandonVars, res, requests, replied, frame, owed,
                 chres, pre, aborted>>

\* The mode change failed: _fsaa = oldFSAA, SDL_SetVideoMode(0, 0, 0, flags)
\* again, and an exception when that fails too.
setFSAARevert(t) ==
  /\ ~aborted
  /\ pc[t] = "fsaa_revert"
  /\ fsaa' = old[t][1]
  /\ trail' = Append(trail, "revert")
  /\ gpuThreads' = gpuThreads \cup {t}
  /\ \E ok \in BOOLEAN :
       /\ screen' = SDL_SetVideoMode(sdlMode.w, sdlMode.h, old[t][2], ok)
       /\ IF ok
            THEN /\ pc' = [pc EXCEPT ![t] = "fsaa_rebuild"]
                 /\ UNCHANGED <<arg, old, ret, serving>>
            ELSE /\ pc' = [pc EXCEPT ![t] = "done"]
                 /\ ret' = [ret EXCEPT ![t] = "exception"]
                 /\ arg' = [arg EXCEPT ![t] = <<>>]
                 /\ old' = [old EXCEPT ![t] = <<>>]
                 /\ serving' = {}
  /\ UNCHANGED <<ready, fullScreen, fsaaMax, sdlMode, queueVars, mutex,
                 frameVars, abandonVars, res, requests, replied, frame, owed,
                 chres, pre, aborted>>

\* rebuildContext(), which throws when glewInit() fails, then
\* return _fsaa == level.
setFSAARebuild(t) ==
  /\ ~aborted
  /\ pc[t] = "fsaa_rebuild"
  /\ gpuThreads' = gpuThreads \cup {t}
  /\ \E glewOk \in BOOLEAN :
       IF glewOk
         THEN /\ res' = rebuildContext(res)
              /\ trail' = Append(trail, "rebuild")
              /\ Return(t, IF fsaa = arg[t][1] THEN "true" ELSE "false",
                        serving, trail')
         ELSE /\ Throw(t)
              /\ UNCHANGED <<res, trail>>
  /\ UNCHANGED <<surfaceVars, queueVars, mutex, frameVars, abandonVars,
                 requests, frame, owed, chres, pre, aborted>>

(* ------------------------------ setFullScreen ------------------------- *)

\* setFullScreen(fullScreen) on the main thread, up to destroyContext().
setFullScreenMain(t, fs, onBehalf) ==
  /\ chres' = {}
  /\ trail' = <<>>
  /\ UNCHANGED <<aborted, fsaa>>
  /\ IF fullScreen = fs
       THEN /\ Return(t, "void", onBehalf, <<>>)
            /\ pre' = NoPre
       ELSE /\ pre' = Snapshot
            /\ arg' = [arg EXCEPT ![t] = <<fs>>]
            /\ pc' = [pc EXCEPT ![t] = "fs_destroy"]
            /\ serving' = onBehalf
            /\ UNCHANGED <<old, ret, replied>>

\* A setFullScreen() without the test of the thread: every caller changes
\* the mode itself.
C4_MutantSetFullScreen(t, fs) ==
  /\ Idle(t)
  /\ ready
  /\ setFullScreenMain(t, fs, {})
  /\ UNCHANGED requests
  /\ UNCHANGED <<ready, fullScreen, fsaaMax, screen, sdlMode, queueVars, mutex,
                 frameVars, abandonVars, res, frame, owed, gpuThreads>>

\* setFullScreen(fullScreen): nothing to do when the flag is already set;
\* otherwise another thread than the main one sends a request.
setFullScreen(t, fs) ==
  /\ Idle(t)
  /\ ready
  /\ IF fullScreen # fs /\ ~isMainThread(t)
       THEN /\ requests' = Dispatched(t, "fullscreen", <<fs>>)
            /\ pc' = [pc EXCEPT ![t] = "fs_wait"]
            /\ arg' = [arg EXCEPT ![t] = <<fs>>]
            /\ UNCHANGED <<old, ret, serving, replied, fsaa, obsVars, aborted>>
     ELSE IF ~isMainThread(t)
       THEN UNCHANGED <<requests, pc, arg, old, ret, serving, replied, fsaa,
                       obsVars, aborted>>
     ELSE /\ setFullScreenMain(t, fs, {})
          /\ UNCHANGED requests
  /\ UNCHANGED <<ready, fullScreen, fsaaMax, screen, sdlMode, queueVars, mutex,
                 frameVars, abandonVars, res, frame, owed, gpuThreads>>

\* The requester after dispatchAndWait().
setFullScreenReturn(t) ==
  /\ ~aborted
  /\ pc[t] = "fs_wait"
  /\ \E r \in replied :
       /\ r.to = t
       /\ replied' = replied \ {r}
  /\ ret' = [ret EXCEPT ![t] = "void"]
  /\ pc' = [pc EXCEPT ![t] = "done"]
  /\ arg' = [arg EXCEPT ![t] = <<>>]
  /\ UNCHANGED <<surfaceVars, queueVars, mutex, frameVars, abandonVars, res,
                 old, requests, serving, frame, owed, obsVars, gpuThreads,
                 aborted>>

\* destroyContext(), then flags = _screen->flags.
setFullScreenDestroy(t) ==
  /\ ~aborted
  /\ pc[t] = "fs_destroy"
  /\ res' = destroyContext(res)
  /\ trail' = Append(trail, "destroy")
  /\ gpuThreads' = gpuThreads \cup {t}
  /\ IF screen.null
       THEN /\ aborted' = TRUE
            /\ UNCHANGED <<old, pc>>
       ELSE /\ old' = [old EXCEPT ![t] = <<screen.fullscreen>>]
            /\ pc' = [pc EXCEPT ![t] = "fs_mode"]
            /\ UNCHANGED aborted
  /\ UNCHANGED <<surfaceVars, queueVars, mutex, frameVars, abandonVars,
                 arg, ret, bridgeVars, frame, owed, chres, pre>>

\* _screen = SDL_SetVideoMode(0, 0, 0, flags ^ SDL_FULLSCREEN), and
\* _fullScreen = fullScreen when the platform accepts the mode.
setFullScreenMode(t) ==
  /\ ~aborted
  /\ pc[t] = "fs_mode"
  /\ \E ok \in BOOLEAN :
       /\ screen' = SDL_SetVideoMode(sdlMode.w, sdlMode.h, ~old[t][1], ok)
       /\ sdlMode' = IF ok THEN screen' ELSE sdlMode
       /\ fullScreen' = IF ok THEN arg[t][1] ELSE fullScreen
       /\ pc' = [pc EXCEPT ![t] = IF ok THEN "fs_rebuild" ELSE "fs_revert"]
  /\ trail' = Append(trail, "mode")
  /\ replied' = Stale(replied)
  /\ gpuThreads' = gpuThreads \cup {t}
  /\ UNCHANGED <<ready, fsaa, fsaaMax, queueVars, mutex, frameVars,
                 abandonVars, res, arg, old, ret, requests, serving, frame,
                 owed, chres, pre, aborted>>

\* A revert that goes on to rebuildContext() whatever the platform answers.
C13_MutantSetFullScreenRevert(t) ==
  /\ ~aborted
  /\ pc[t] = "fs_revert"
  /\ trail' = Append(trail, "revert")
  /\ gpuThreads' = gpuThreads \cup {t}
  /\ \E ok \in BOOLEAN :
       /\ screen' = SDL_SetVideoMode(sdlMode.w, sdlMode.h, old[t][1], ok)
       /\ pc' = [pc EXCEPT ![t] = "fs_rebuild"]
       /\ UNCHANGED <<arg, old, ret, serving>>
  /\ UNCHANGED <<ready, fullScreen, fsaa, fsaaMax, sdlMode, queueVars, mutex,
                 frameVars, abandonVars, res, requests, replied, frame, owed,
                 chres, pre, aborted>>

\* The mode change failed: SDL_SetVideoMode(0, 0, 0, flags), and an
\* exception when that fails too.
setFullScreenRevert(t) ==
  /\ ~aborted
  /\ pc[t] = "fs_revert"
  /\ trail' = Append(trail, "revert")
  /\ gpuThreads' = gpuThreads \cup {t}
  /\ \E ok \in BOOLEAN :
       /\ screen' = SDL_SetVideoMode(sdlMode.w, sdlMode.h, old[t][1], ok)
       /\ IF ok
            THEN /\ pc' = [pc EXCEPT ![t] = "fs_rebuild"]
                 /\ UNCHANGED <<arg, old, ret, serving>>
            ELSE /\ pc' = [pc EXCEPT ![t] = "done"]
                 /\ ret' = [ret EXCEPT ![t] = "exception"]
                 /\ arg' = [arg EXCEPT ![t] = <<>>]
                 /\ old' = [old EXCEPT ![t] = <<>>]
                 /\ serving' = {}
  /\ UNCHANGED <<ready, fullScreen, fsaa, fsaaMax, sdlMode, queueVars, mutex,
                 frameVars, abandonVars, res, requests, replied, frame, owed,
                 chres, pre, aborted>>

\* rebuildContext(), which throws when glewInit() fails.
setFullScreenRebuild(t) ==
  /\ ~aborted
  /\ pc[t] = "fs_rebuild"
  /\ gpuThreads' = gpuThreads \cup {t}
  /\ \E glewOk \in BOOLEAN :
       IF glewOk
         THEN /\ res' = rebuildContext(res)
              /\ trail' = Append(trail, "rebuild")
              /\ Return(t, "void", serving, trail')
         ELSE /\ Throw(t)
              /\ UNCHANGED <<res, trail>>
  /\ UNCHANGED <<surfaceVars, queueVars, mutex, frameVars, abandonVars,
                 requests, frame, owed, chres, pre, aborted>>

(* ------------------------------ setScreenSize ------------------------- *)

\* setScreenSize(width, height) on the main thread, up to destroyContext():
\* the flags, the width and the height of the surface are saved.
setScreenSizeMain(t, width, height, onBehalf) ==
  /\ chres' = {}
  /\ trail' = <<>>
  /\ UNCHANGED fsaa
  /\ IF screen.null
       THEN /\ aborted' = TRUE
            /\ UNCHANGED <<pc, arg, old, ret, serving, replied, pre>>
     ELSE IF width = screen.w /\ height = screen.h
       THEN /\ Return(t, "void", onBehalf, <<>>)
            /\ pre' = NoPre
            /\ UNCHANGED aborted
     ELSE /\ pre' = Snapshot
          /\ arg' = [arg EXCEPT ![t] = <<width, height>>]
          /\ old' = [old EXCEPT ![t] = <<screen.fullscreen, screen.w, screen.h>>]
          /\ pc' = [pc EXCEPT ![t] = "ss_destroy"]
          /\ serving' = onBehalf
          /\ UNCHANGED <<ret, replied, aborted>>

\* setScreenSize(width, height): _screen is dereferenced for the test of
\* "no changes"; then another thread than the main one sends a request.
setScreenSize(t, width, height) ==
  /\ Idle(t)
  /\ ready
  /\ IF isMainThread(t)
       THEN /\ setScreenSizeMain(t, width, height, {})
            /\ UNCHANGED requests
     ELSE IF screen.null
       THEN /\ aborted' = TRUE
            /\ UNCHANGED <<requests, pc, arg, old, ret, serving, replied, fsaa,
                           obsVars>>
     ELSE IF width = screen.w /\ height = screen.h
       THEN UNCHANGED <<requests, pc, arg, old, ret, serving, replied, fsaa,
                       obsVars, aborted>>
     ELSE /\ requests' = Dispatched(t, "size", <<width, height>>)
          /\ pc' = [pc EXCEPT ![t] = "ss_wait"]
          /\ arg' = [arg EXCEPT ![t] = <<width, height>>]
          /\ UNCHANGED <<old, ret, serving, replied, fsaa, obsVars, aborted>>
  /\ UNCHANGED <<ready, fullScreen, fsaaMax, screen, sdlMode, queueVars, mutex,
                 frameVars, abandonVars, res, frame, owed, gpuThreads>>

\* The requester after dispatchAndWait().
setScreenSizeReturn(t) ==
  /\ ~aborted
  /\ pc[t] = "ss_wait"
  /\ \E r \in replied :
       /\ r.to = t
       /\ replied' = replied \ {r}
  /\ ret' = [ret EXCEPT ![t] = "void"]
  /\ pc' = [pc EXCEPT ![t] = "done"]
  /\ arg' = [arg EXCEPT ![t] = <<>>]
  /\ UNCHANGED <<surfaceVars, queueVars, mutex, frameVars, abandonVars, res,
                 old, requests, serving, frame, owed, obsVars, gpuThreads,
                 aborted>>

setScreenSizeDestroy(t) ==
  /\ ~aborted
  /\ pc[t] = "ss_destroy"
  /\ res' = destroyContext(res)
  /\ trail' = Append(trail, "destroy")
  /\ gpuThreads' = gpuThreads \cup {t}
  /\ pc' = [pc EXCEPT ![t] = "ss_mode"]
  /\ UNCHANGED <<surfaceVars, queueVars, mutex, frameVars, abandonVars,
                 arg, old, ret, bridgeVars, frame, owed, chres, pre, aborted>>

\* A mode change that asks the platform for the old size again.
C3_MutantSetScreenSizeMode(t) ==
  /\ ~aborted
  /\ pc[t] = "ss_mode"
  /\ \E ok \in BOOLEAN :
       /\ screen' = SDL_SetVideoMode(old[t][2], old[t][3], old[t][1], ok)
       /\ sdlMode' = IF ok THEN screen' ELSE sdlMode
       /\ pc' = [pc EXCEPT ![t] = IF ok THEN "ss_rebuild" ELSE "ss_revert"]
  /\ trail' = Append(trail, "mode")
  /\ replied' = Stale(replied)
  /\ gpuThreads' = gpuThreads \cup {t}
  /\ UNCHANGED <<ready, fullScreen, fsaa, fsaaMax, queueVars, mutex, frameVars,
                 abandonVars, res, arg, old, ret, requests, serving, frame,
                 owed, chres, pre, aborted>>

\* _screen = SDL_SetVideoMode(width, height, bpp, flags)
setScreenSizeMode(t) ==
  /\ ~aborted
  /\ pc[t] = "ss_mode"
  /\ \E ok \in BOOLEAN :
       /\ screen' = SDL_SetVideoMode(arg[t][1], arg[t][2], old[t][1], ok)
       /\ sdlMode' = IF ok THEN screen' ELSE sdlMode
       /\ pc' = [pc EXCEPT ![t] = IF ok THEN "ss_rebuild" ELSE "ss_revert"]
  /\ trail' = Append(trail, "mode")
  /\ replied' = Stale(replied)
  /\ gpuThreads' = gpuThreads \cup {t}
  /\ UNCHANGED <<ready, fullScreen, fsaa, fsaaMax, queueVars, mutex, frameVars,
                 abandonVars, res, arg, old, ret, requests, serving, frame,
                 owed, chres, pre, aborted>>

\* The mode change failed: SDL_SetVideoMode(oldWidth, oldHeight, bpp, flags),
\* and an exception when that fails too.
setScreenSizeRevert(t) ==
  /\ ~aborted
  /\ pc[t] = "ss_revert"
  /\ trail' = Append(trail, "revert")
  /\ gpuThreads' = gpuThreads \cup {t}
  /\ \E ok \in BOOLEAN :
       /\ screen' = SDL_SetVideoMode(old[t][2], old[t][3], old[t][1], ok)
       /\ IF ok
            THEN /\ pc' = [pc EXCEPT ![t] = "ss_rebuild"]
                 /\ UNCHANGED <<arg, old, ret, serving>>
            ELSE /\ pc' = [pc EXCEPT ![t] = "done"]
                 /\ ret' = [ret EXCEPT ![t] = "exception"]
                 /\ arg' = [arg EXCEPT ![t] = <<>>]
                 /\ old' = [old EXCEPT ![t] = <<>>]
                 /\ serving' = {}
  /\ UNCHANGED <<ready, fullScreen, fsaa, fsaaMax, sdlMode, queueVars, mutex,
                 frameVars, abandonVars, res, requests, replied, frame, owed,
                 chres, pre, aborted>>

\* rebuildContext(), which throws when glewInit() fails.
setScreenSizeRebuild(t) ==
  /\ ~aborted
  /\ pc[t] = "ss_rebuild"
  /\ gpuThreads' = gpuThreads \cup {t}
  /\ \E glewOk \in BOOLEAN :
       IF glewOk
         THEN /\ res' = rebuildContext(res)
              /\ trail' = Append(trail, "rebuild")
              /\ pc' = [pc EXCEPT ![t] = "ss_notify"]
              /\ UNCHANGED <<arg, old, ret, serving, replied>>
         ELSE /\ Throw(t)
              /\ UNCHANGED <<res, trail>>
  /\ UNCHANGED <<surfaceVars, queueVars, mutex, frameVars, abandonVars,
                 requests, frame, owed, chres, pre, aborted>>

\* A loop that tells the first member of the queue only.
C14_MutantNotifications(list, ow, oh, nw, nh) ==
  {<<list[i], ow, oh, nw, nh>> : i \in {j \in 1..Len(list) : j = 1}}

\* changedResolution(oldWidth, oldHeight, _screen->w, _screen->h) for every
\* member of the GUI-front queue.
Notifications(list, ow, oh, nw, nh) == {<<list[i], ow, oh, nw, nh>> : i \in 1..Len(list)}

\* The test of the size after rebuildContext(): when the size did not
\* change the call returns; otherwise the loop over the GUI-front queue
\* starts at _guiFrontObjects.list.begin(), without the queue's mutex.
setScreenSizeNotifyBegin(t) ==
  /\ ~aborted
  /\ pc[t] = "ss_notify"
  /\ IF old[t][2] # screen.w \/ old[t][3] # screen.h
       THEN /\ pc' = [pc EXCEPT ![t] = "ss_loop"]
            /\ old' = [old EXCEPT ![t] = Append(old[t], guiFrontObjects)]
            /\ UNCHANGED <<arg, ret, serving, replied>>
       ELSE Return(t, "void", serving, trail)
  /\ UNCHANGED <<surfaceVars, queueVars, mutex, frameVars, abandonVars, res,
                 requests, frame, owed, obsVars, gpuThreads, aborted>>

\* What the loop does when another thread changed the list under it (a data
\* race on the list's nodes): it visits the members it started with, or the
\* members the list has now, or the process ends.
RaceOutcomes == {"before", "after", "abort"}

\* The loop of setScreenSize() and its return: the GUI-front objects are
\* told of the old and the new size; the queue's mutex is not taken.
setScreenSizeNotify(t) ==
  /\ ~aborted
  /\ pc[t] = "ss_loop"
  /\ \E outcome \in RaceOutcomes :
       /\ old[t][4] = guiFrontObjects => outcome = "after"
       /\ IF outcome = "abort"
            THEN /\ aborted' = TRUE
                 /\ UNCHANGED <<chres, pc, arg, old, ret, serving, replied>>
            ELSE /\ chres' = Notifications(
                               IF outcome = "before" THEN old[t][4]
                               ELSE guiFrontObjects,
                               old[t][2], old[t][3], screen.w, screen.h)
                 /\ Return(t, "void", serving, trail)
                 /\ UNCHANGED aborted
  /\ UNCHANGED <<surfaceVars, queueVars, mutex, frameVars, abandonVars, res,
                 requests, frame, owed, trail, pre, gpuThreads>>

(* ------------------------------ request processing -------------------- *)

\* The rendering thread takes the oldest request and makes the call it
\* stands for.
processRequest(t) ==
  /\ Idle(t)
  /\ isMainThread(t)
  /\ requests # <<>>
  /\ requests' = Tail(requests)
  /\ LET rq == Head(requests) IN
       CASE rq.op = "fsaa" -> setFSAAMain(t, rq.a[1], {rq.from})
         [] rq.op = "fullscreen" -> setFullScreenMain(t, rq.a[1], {rq.from})
         [] rq.op = "size" -> setScreenSizeMain(t, rq.a[1], rq.a[2], {rq.from})
  /\ UNCHANGED <<ready, fullScreen, fsaaMax, screen, sdlMode, queueVars, mutex,
                 frameVars, abandonVars, res, frame, owed, gpuThreads>>

(* ------------------------------ between calls ------------------------- *)

\* The caller has the result of its call and goes on.  What was observed of
\* the call of the main thread is dropped with it.
Resume(t) ==
  /\ ~aborted
  /\ pc[t] = "done"
  /\ pc' = [pc EXCEPT ![t] = "idle"]
  /\ ret' = [ret EXCEPT ![t] = "none"]
  /\ IF isMainThread(t)
       THEN /\ frame' = NoFrame
            /\ owed' = {}
            /\ chres' = {}
            /\ trail' = <<>>
            /\ pre' = NoPre
       ELSE UNCHANGED <<frame, owed, obsVars>>
  /\ UNCHANGED <<surfaceVars, queueVars, mutex, frameVars, abandonVars, res,
                 arg, old, bridgeVars, gpuThreads, aborted>>

(* ------------------------------ specifications ------------------------ *)

\* The distance, tag and bounds a resource of a kind is constructed with:
\* only drawable objects have a distance, only GUI-front objects are hit.
Shapes(k) ==
  IF k = "guiFront" THEN Distances \X Tags \X Rects
  ELSE IF k = "object" THEN Distances \X {""} \X {"all"}
  ELSE {<<1, "", "all">>}

\* A resource that takes no part in sorting or hit-testing.
PlainShape == <<1, "", "all">>

Counts == 0..MaxHandles
Xs == {0, 700}
Ys == {0}
Supported == SUBSET {2}

\* ConfigMan's defaults for "width" and "height".
DefaultSize == <<800, 600>>

ResumeNext == \E t \in Threads : Resume(t)

RegistryNext ==
  \/ \E t \in Threads, k \in Kinds : \E sh \in Shapes(k) :
       Construct(t, k, sh[1], sh[2], sh[3])
  \/ \E t \in Threads, r \in ResIds : RemoveFromQueue(t, r)
  \/ \E t \in Threads, r \in ResIds : AddToQueue(t, r)

\* Construction of plain resources of the kinds K.
ConstructNext(K) ==
  \E t \in Threads, k \in K :
    Construct(t, k, PlainShape[1], PlainShape[2], PlainShape[3])

ClearNext ==
  \/ \E t \in Threads : clearTextureQueue(t)
  \/ \E t \in Threads : clearListContainerQueue(t)
  \/ \E t \in Threads : clearVideoQueue(t)
  \/ \E t \in Threads : clearRenderQueueObjectsLock(t)
  \/ \E t \in Threads : clearRenderQueueGuiFrontLock(t)
  \/ \E t \in Threads : clearRenderQueue(t)

\* init() with every configuration over the sizes S.
InitNext(S) ==
  /\ ~ready
  /\ sdlMode.null
  /\ \E t \in Threads, sz \in S, fs \in BOOLEAN, sup \in Supported,
        l \in Levels, o \in InitOutcomes :
       init(t, sz[1], sz[2], fs, sup, l, o)

\* init() with the default configuration, on a platform without FSAA.
InitDefaultNext ==
  /\ ~ready
  /\ sdlMode.null
  /\ \E t \in Threads, o \in InitOutcomes :
       init(t, DefaultSize[1], DefaultSize[2], FALSE, {}, 0, o)

DeinitNext == \E t \in Threads : deinit(t)

LifecycleNext == InitNext(Sizes) \/ DeinitNext

AbandonNext ==
  \/ \E t \in Threads, n \in Counts : abandonTextureIds(t, n)
  \/ \E t \in Threads, n \in Counts : abandonListIds(t, n)

LockNext ==
  \/ \E t \in Threads : lockFrame(t)
  \/ \E t \in Threads : unlockFrame(t)

CursorNext ==
  \/ \E t \in Threads, c \in BOOLEAN : setCursor(t, c)
  \/ \E t \in Threads : requestScreenshot(t)
  \/ \E t \in Threads, show \in BOOLEAN : showCursor(t, show)

HitTestNext ==
  \E t \in Threads, x \in Xs, y \in Ys : getObjectAt(t, x, y)

\* renderScene() on the path of a frame without videos and without a pending
\* cursor switch.
RenderNormalNext ==
  \/ \E t \in Threads : renderScene(t)
  \/ \E t \in Threads : renderSceneLocked(t)
  \/ \E t \in Threads : renderSceneDropped(t)
  \/ \E t \in Threads : renderSceneVideosLock(t)
  \/ \E t \in Threads : renderSceneClear(t)
  \/ \E t \in Threads : renderSceneObjectsLock(t)
  \/ \E t \in Threads : renderSceneGuiFrontLock(t)
  \/ \E t \in Threads : renderSceneScene(t)
  \/ \E t \in Threads : renderSceneFinish(t)
  \/ \E t \in Threads : renderSceneReturn(t)

\* cleanupAbandoned() with handles to delete.
CleanupNext == \E t \in Threads : cleanupAbandoned(t)

\* The steps of renderScene() that need a video or a cursor switch.
RenderVideoNext ==
  \/ \E t \in Threads : handleCursorSwitch(t)
  \/ \E t \in Threads : renderSceneVideo(t)

SurfaceNext ==
  \/ \E t \in Threads, l \in Levels : setFSAA(t, l)
  \/ \E t \in Threads : setFSAAReturn(t)
  \/ \E t \in Threads : setFSAADestroy(t)
  \/ \E t \in Threads : setFSAAMode(t)
  \/ \E t \in Threads : setFSAARevert(t)
  \/ \E t \in Threads : setFSAARebuild(t)
  \/ \E t \in Threads, fs \in BOOLEAN : setFullScreen(t, fs)
  \/ \E t \in Threads : setFullScreenReturn(t)
  \/ \E t \in Threads : setFullScreenDestroy(t)
  \/ \E t \in Threads : setFullScreenMode(t)
  \/ \E t \in Threads : setFullScreenRevert(t)
  \/ \E t \in Threads : setFullScreenRebuild(t)
  \/ \E t \in Threads, sz \in Sizes : setScreenSize(t, sz[1], sz[2])
  \/ \E t \in Threads : setScreenSizeReturn(t)
  \/ \E t \in Threads : setScreenSizeDestroy(t)
  \/ \E t \in Threads : setScreenSizeMode(t)
  \/ \E t \in Threads : setScreenSizeRevert(t)
  \/ \E t \in Threads : setScreenSizeRebuild(t)
  \/ \E t \in Threads : setScreenSizeNotifyBegin(t)
  \/ \E t \in Threads : setScreenSizeNotify(t)
  \/ \E t \in Threads : processRequest(t)

\* Every operation of the manager.
Next ==
  \/ ResumeNext
  \/ RegistryNext
  \/ ClearNext
  \/ LifecycleNext
  \/ AbandonNext
  \/ LockNext
  \/ CursorNext
  \/ HitTestNext
  \/ CleanupNext
  \/ RenderNormalNext
  \/ RenderVideoNext
  \/ SurfaceNext

Spec == Init /\ [][Next]_vars

\* The registry and the clear operations.
QueueNext == RegistryNext \/ ClearNext

SpecQueue == Init /\ [][QueueNext]_vars

\* abandon() from every thread against the frames of the rendering thread.
AbandonFrameNext ==
  \/ ResumeNext
  \/ InitDefaultNext
  \/ AbandonNext
  \/ CleanupNext
  \/ LockNext
  \/ RenderNormalNext

SpecAbandon == Init /\ [][AbandonFrameNext]_vars

\* The frame renderer with the operations that compete with it.
FrameNext ==
  \/ ResumeNext
  \/ InitDefaultNext
  \/ ConstructNext({"video", "object", "guiFront"})
  \/ LockNext
  \/ CursorNext
  \/ HitTestNext
  \/ RenderNormalNext
  \/ RenderVideoNext

SpecFrame == Init /\ [][FrameNext]_vars

\* The surface operations and the request bridge, with textures and
\* GUI-front objects in the queues.
ReconfigNext ==
  \/ ResumeNext
  \/ LifecycleNext
  \/ ConstructNext({"texture", "guiFront"})
  \/ SurfaceNext

SpecSurface == Init /\ [][ReconfigNext]_vars

\* Everything that touches the GPU context, with the frame lock.
GpuNext ==
  \/ ResumeNext
  \/ InitNext(Sizes)
  \/ AbandonNext
  \/ CleanupNext
  \/ LockNext
  \/ RenderNormalNext
  \/ SurfaceNext

SpecGpu == Init /\ [][GpuNext]_vars

\* init() and deinit() against the registry of all five queues.
DeinitQueueNext == InitDefaultNext \/ DeinitNext \/ RegistryNext

SpecDeinit == Init /\ [][DeinitQueueNext]_vars

\* setScreenSize() from every thread.
ResizeNext ==
  \/ \E t \in Threads, sz \in Sizes : setScreenSize(t, sz[1], sz[2])
  \/ \E t \in Threads : setScreenSizeReturn(t)
  \/ \E t \in Threads : setScreenSizeDestroy(t)
  \/ \E t \in Threads : setScreenSizeMode(t)
  \/ \E t \in Threads : setScreenSizeRevert(t)
  \/ \E t \in Threads : setScreenSizeRebuild(t)
  \/ \E t \in Threads : setScreenSizeNotifyBegin(t)
  \/ \E t \in Threads : setScreenSizeNotify(t)
  \/ \E t \in Threads : processRequest(t)

\* Resizes with world objects and GUI-front objects in the queues.
ResizeObjectsNext ==
  \/ ResumeNext
  \/ InitDefaultNext
  \/ ConstructNext({"object", "guiFront"})
  \/ ResizeNext

SpecResize == Init /\ [][ResizeObjectsNext]_vars

\* GUI-front objects of every shape join and leave their queue.
GuiRegistryNext ==
  \/ \E t \in Threads : \E sh \in Shapes("guiFront") :
       Construct(t, "guiFront", sh[1], sh[2], sh[3])
  \/ \E t \in Threads, r \in ResIds : RemoveFromQueue(t, r)
  \/ \E t \in Threads, r \in ResIds : AddToQueue(t, r)

\* Hit tests against a GUI-front queue of tagged and untagged objects.
HitNext == ResumeNext \/ InitDefaultNext \/ GuiRegistryNext \/ HitTestNext

SpecHitTest == Init /\ [][HitNext]_vars

\* World objects and GUI-front objects of every distance are constructed.
DistanceNext ==
  \E t \in Threads, k \in {"object", "guiFront"}, d \in Distances :
    Construct(t, k, d, PlainShape[2], PlainShape[3])

\* The two operations that sort, with objects of every distance.
SortNext ==
  \/ ResumeNext
  \/ InitDefaultNext
  \/ DistanceNext
  \/ LockNext
  \/ HitTestNext
  \/ RenderNormalNext

SpecSort == Init /\ [][SortNext]_vars

\* The surface operations with textures, list containers and videos in
\* the queues.
ContextNext ==
  \/ ResumeNext
  \/ InitNext(Sizes)
  \/ ConstructNext({"texture", "list", "video"})
  \/ SurfaceNext

SpecContext == Init /\ [][ContextNext]_vars

\* Resizes and frames while GUI-front and world objects join and leave
\* their queues from every thread.
RaceNext ==
  \/ ResumeNext
  \/ InitDefaultNext
  \/ ConstructNext({"object", "guiFront"})
  \/ \E t \in Threads, r \in ResIds : RemoveFromQueue(t, r)
  \/ \E t \in Threads, r \in ResIds : AddToQueue(t, r)
  \/ LockNext
  \/ RenderNormalNext
  \/ ResizeNext

SpecRace == Init /\ [][RaceNext]_vars

\* Frames, hit tests, the clear operations and the frame lock from every
\* thread, while videos and objects are constructed.
MutexNext == FrameNext \/ ClearNext

SpecMutex == Init /\ [][MutexNext]_vars

\* setFullScreen() from every thread.
FullScreenNext ==
  \/ \E t \in Threads, fs \in BOOLEAN : setFullScreen(t, fs)
  \/ \E t \in Threads : setFullScreenReturn(t)
  \/ \E t \in Threads : setFullScreenDestroy(t)
  \/ \E t \in Threads : setFullScreenMode(t)
  \/ \E t \in Threads : setFullScreenRevert(t)
  \/ \E t \in Threads : setFullScreenRebuild(t)
  \/ \E t \in Threads : processRequest(t)

\* Everything that destroys, rebuilds or evicts: frames with videos, the
\* clear operations, deinit() and a surface operation, with textures and
\* videos in the queues.
EvictNext ==
  \/ ResumeNext
  \/ InitDefaultNext
  \/ ConstructNext({"texture", "video"})
  \/ ClearNext
  \/ DeinitNext
  \/ LockNext
  \/ RenderNormalNext
  \/ \E t \in Threads : renderSceneVideo(t)
  \/ FullScreenNext

SpecEvict == Init /\ [][EvictNext]_vars

\* Frames on both paths while every thread calls showCursor() and the
\* other threads take and release the frame lock.
CursorSwitchNext ==
  \/ ResumeNext
  \/ InitDefaultNext
  \/ ConstructNext({"video"})
  \/ \E t \in Threads, show \in BOOLEAN : showCursor(t, show)
  \/ LockNext
  \/ RenderNormalNext
  \/ RenderVideoNext

\* The steps of renderScene() between the frame lock and the return: the
\* thread waits for nobody there (the queue mutexes it takes are held by
\* other threads only for the length of one of their calls).
LockedFrameStep(t) ==
  \/ renderSceneVideosLock(t)
  \/ handleCursorSwitch(t)
  \/ renderSceneClear(t)
  \/ renderSceneVideo(t)
  \/ renderSceneObjectsLock(t)
  \/ renderSceneGuiFrontLock(t)
  \/ renderSceneScene(t)
  \/ renderSceneFinish(t)
  \/ renderSceneReturn(t)

\* A frame that has the frame lock runs to its end.
SpecCursor ==
  Init /\ [][CursorSwitchNext]_vars /\ WF_vars(LockedFrameStep(Main))

\* Normal frames with world and GUI-front objects of every distance, with
\* and without a cursor and a screenshot request.
SceneNext ==
  \/ ResumeNext
  \/ InitDefaultNext
  \/ DistanceNext
  \/ LockNext
  \/ \E t \in Threads, c \in BOOLEAN : setCursor(t, c)
  \/ \E t \in Threads : requestScreenshot(t)
  \/ RenderNormalNext

SpecScene == Init /\ [][SceneNext]_vars

\* Frames on both paths while the other threads take and release the frame
\* lock and every thread sets the cursor and asks for screenshots.
FrameLockNext ==
  \/ ResumeNext
  \/ InitDefaultNext
  \/ ConstructNext({"video"})
  \/ LockNext
  \/ CursorNext
  \/ RenderNormalNext
  \/ RenderVideoNext

\* A frame that has the frame lock runs to its end; a thread that called
\* lockFrame() calls unlockFrame(); a thread that waits in lockFrame() is
\* woken when the semaphore is released.
FrameLockFairness ==
  /\ WF_vars(LockedFrameStep(Main))
  /\ \A w \in Workers : WF_vars(unlockFrame(w))
  /\ \A w \in Workers : SF_vars(lockFrame(w))

SpecFrameLock == Init /\ [][FrameLockNext]_vars /\ FrameLockFairness

(* ------------------------------ C1: clear ----------------------------- *)

\* The clear operation that empties the queue of a kind.
ClearStep(k) ==
  CASE k = "texture" -> \E t \in Threads : clearTextureQueue(t)
    [] k = "list" -> \E t \in Threads : clearListContainerQueue(t)
    [] k = "video" -> \E t \in Threads : clearVideoQueue(t)
    [] OTHER -> \E t \in Threads : clearRenderQueue(t)

\* The queues one clear operation empties.
ClearedWith(k) == IF k \in {"object", "guiFront"} THEN {"object", "guiFront"} ELSE {k}

\* The members of the queues that the clear operation of kind k empties.
MembersAtClear(k) == UNION {Range(getQueue(q)) : q \in ClearedWith(k)}

\* C1: whatever registrations and unregistrations came before, a clear
\* operation on any of the five queues delivers exactly one kickedOut to
\* every resource that is a member when it runs, none to any other resource,
\* and leaves the queue empty.
C1_ClearKicksEachMemberOnce ==
  [][\A k \in Kinds :
       ClearStep(k) =>
         /\ \A r \in MembersAtClear(k) : res'[r].kicked = res[r].kicked + 1
         /\ \A r \in ResIds \ MembersAtClear(k) : res'[r].kicked = res[r].kicked
         /\ getQueue(k)' = <<>>]_vars

\* Two members of one queue were kicked out by a clear of their queue.
C1_Witness ==
  \E r \in ResIds, q \in ResIds :
    /\ r # q
    /\ res[r].kind = res[q].kind
    /\ res[r].kicked = 1
    /\ res[q].kicked = 1
    /\ getQueue(res[r].kind) = <<>>

(* ------------------------------ C2: abandoned handles ----------------- *)

\* The main thread is in a renderScene() call, or has just returned from
\* one, and is past the call's cleanupAbandoned().
PastCleanup == frame.path # "none" /\ pc[Main] # "rs_cleanup"

\* The handles that wait in the two containers.
Pending == Range(abandonTextures) \cup Range(abandonLists)

\* C2: a handle passed to abandon() by any thread is deleted at most once,
\* never before its abandon() call, and only by the main thread; until it
\* is deleted it waits in its container with the flag set (it is not lost);
\* and once renderScene() is past its cleanup step, every handle whose
\* abandon() had returned when that renderScene() call started is deleted.
C2_AbandonedDeletedOnceByNextFrame ==
  /\ \A h \in Handles : glDeleted[h] <= 1
  /\ \A h \in Handles : glDeleted[h] = 1 => h \in Abandoned
  /\ \A h \in Abandoned : glDeleted[h] = 0 => (h \in Pending /\ hasAbandoned)
  /\ \A h \in Pending : glDeleted[h] = 0
  /\ gpuThreads \subseteq {Main}
  /\ PastCleanup => \A h \in owed : glDeleted[h] = 1

\* A frame past its cleanup step: the handles abandoned before it started
\* are deleted, one abandoned since then still waits.
C2_Witness ==
  /\ PastCleanup
  /\ owed # {}
  /\ \A h \in owed : glDeleted[h] = 1
  /\ \E h \in Abandoned \ owed : glDeleted[h] = 0

(* ------------------------------ C3: requests from other threads ------- *)

\* A thread returns from the wait for its request.
ReturnStep(t) ==
  setScreenSizeReturn(t) \/ setFSAAReturn(t) \/ setFullScreenReturn(t)

\* What a finished call has done: nothing (there was nothing to change, or
\* the level was refused), or the whole sequence, with or without a revert.
Accepted == <<"destroy", "mode", "rebuild">>
Reverted == <<"destroy", "mode", "revert", "rebuild">>
WholeSequences == {<<>>, Accepted, Reverted}

HasRequest(t) == \E i \in 1..Len(requests) : requests[i].from = t

\* C3: a thread other than the main one returns from setScreenSize, setFSAA
\* or setFullScreen only when the main thread has finished its request: the
\* request is neither queued nor in progress, and what was done for it is a
\* whole destroy, mode change (and revert), rebuild sequence.  When
\* setScreenSize(w, h) returns after the platform accepted the mode, and no
\* other mode change was made between the end of the request and the
\* return, the screen width and height are w and h.
C3_RequesterReturnsAfterWholeSequence ==
  [][\A t \in Workers : \A r \in replied :
       (ReturnStep(t) /\ r.to = t) =>
         /\ r.did \in WholeSequences
         /\ ~HasRequest(t)
         /\ t \notin serving
         /\ (setScreenSizeReturn(t) /\ r.did = Accepted /\ ~r.stale) =>
              (getScreenWidth' = arg[t][1] /\ getScreenHeight' = arg[t][2])]_vars

\* The request of a waiting setScreenSize(w, h) caller is finished, the
\* platform accepted the mode, and the screen has the size asked for.
C3_Witness ==
  \E t \in Workers : \E r \in replied :
    /\ pc[t] = "ss_wait"
    /\ r.to = t
    /\ r.did = Accepted
    /\ ~r.stale
    /\ getScreenWidth = arg[t][1]
    /\ getScreenHeight = arg[t][2]
    /\ pc[Main] = "done"

\* C3 as the spec states it: whenever setScreenSize(w, h) returns to another
\* thread after the platform accepted the mode, the screen width and
\* height are w and h.
C3_Original ==
  [][\A t \in Workers : \A r \in replied :
       (setScreenSizeReturn(t) /\ r.to = t /\ r.did = Accepted) =>
         (getScreenWidth' = arg[t][1] /\ getScreenHeight' = arg[t][2])]_vars

(* ------------------------------ C4: one GPU thread -------------------- *)

\* The positions of a thread inside a reconfiguration, from destroyContext()
\* to the end of rebuildContext() and the notification.
ReconfigPcs ==
  {"fsaa_destroy", "fsaa_mode", "fsaa_revert", "fsaa_rebuild",
   "fs_destroy", "fs_mode", "fs_revert", "fs_rebuild",
   "ss_destroy", "ss_mode", "ss_revert", "ss_rebuild", "ss_notify", "ss_loop"}

\* The positions of a thread inside renderScene().
FramePcs ==
  {"rs_cleanup", "rs_lockTry", "rs_videosLock", "rs_cursorSwitch", "rs_clear",
   "rs_video", "rs_objectsLock", "rs_guiFrontLock", "rs_scene", "rs_finish",
   "rs_return"}

\* C4: whichever thread calls setFSAA, setFullScreen, setScreenSize or
\* abandon, only the main thread has ever executed destroyContext(), a mode
\* change, rebuildContext(), the deletion of abandoned handles or the buffer
\* swap, and no other thread is ever at a position inside a
\* reconfiguration or a frame.
C4_GpuOnlyOnMainThread ==
  /\ gpuThreads \subseteq {Main}
  /\ \A t \in Workers : pc[t] \notin ReconfigPcs \cup FramePcs

\* The main thread changes the mode for the request of another thread,
\* after it deleted a handle that was abandoned.
C4_Witness ==
  /\ serving # {}
  /\ pc[Main] \in {"fsaa_rebuild", "fs_rebuild", "ss_rebuild"}
  /\ \E h \in Handles : glDeleted[h] = 1
  /\ gpuThreads = {Main}

(* ------------------------------ C5: video frames ---------------------- *)

\* The names of the events of the log of the frame.
EventNames(log) == {log[i][1] : i \in DOMAIN log}

\* What a frame that plays videos may do besides playing them.
VideoFrameEvents ==
  {"SDL_ShowCursor", "glClear", "video", "kickedOut", "SDL_GL_SwapBuffers",
   "takeScreenshot", "finishedFrame"}

\* Every draw of a world object comes before every draw of a GUI-front
\* object.
WorldThenGui(log) ==
  \A i, j \in DOMAIN log :
    (log[i][1] = "world" /\ log[j][1] = "guiFront") => i < j

\* C5 (as the code has it): a frame that finds the video queue non-empty
\* plays videos and draws no world object, no GUI-front object and no
\* cursor, and nothing in renderScene() asks for a hit test; a frame that
\* finds the video queue empty takes the normal path and draws every world
\* object, then every GUI-front object. A getObjectAt() of another thread is
\* not held back by the videos.
C5_VideoFramesDrawNoScene ==
  /\ [](/\ frame.path = "video" => EventNames(frame.log) \subseteq VideoFrameEvents
        /\ frame.path = "normal" => /\ "video" \notin EventNames(frame.log)
                                    /\ WorldThenGui(frame.log)
        /\ pc[Main] \in {"rs_objectsLock", "rs_guiFrontLock", "rs_scene"}
             => frame.path = "normal")
  /\ [][\A t \in Threads :
          /\ renderSceneClear(t) =>
               frame'.path = IF videos = <<>> THEN "normal" ELSE "video"
          /\ (renderSceneScene(t) /\ ~aborted') =>
               /\ \A r \in Range(objects) : Event("world", r) \in Range(frame'.log)
               /\ \A r \in Range(guiFrontObjects) :
                    Event("guiFront", r) \in Range(frame'.log)]_vars

\* A frame that played a video is over while a world object waits in its
\* queue, undrawn.
C5_Witness ==
  /\ pc[Main] = "done"
  /\ frame.path = "video"
  /\ "video" \in EventNames(frame.log)
  /\ objects # <<>>
  /\ "world" \notin EventNames(frame.log)

\* C5 as stated: during a frame that plays videos there is no draw of the
\* scene and no hit test is executed.
C5_Original ==
  frame.path = "video" =>
    /\ EventNames(frame.log) \subseteq VideoFrameEvents
    /\ ~frame.hit

(* ------------------------------ C9: the frame lock -------------------- *)

C10_DroppedFrameDoesNothing ==
  /\ [](/\ frame.path = "dropped" =>
             /\ frame.log = <<>>
             /\ pc[Main] = "done"
             /\ ret[Main] = "dropped"
        /\ (pc[Main] = "rs_lockTry" /\ frameSemaphore # {} /\ ~aborted)
             => ENABLED renderSceneDropped(Main)
        /\ Occurrences(frame.log, Event("SDL_GL_SwapBuffers", 0)) <= 1)
  /\ [][\A t \in Threads :
          (pc[t] = "rs_lockTry" /\ pc'[t] # "rs_lockTry" /\ frameSemaphore # {})
            => /\ pc'[t] = "done"
               /\ ret'[t] = "dropped"
               /\ frame'.log = <<>>
               /\ UNCHANGED <<surfaceVars, queueVars, mutex, frameVars,
                              abandonVars, res, gpuThreads>>]_vars

\* A frame was dropped while a cursor switch, a screenshot and a video were
\* waiting for it.
C10_Witness ==
  /\ frame.path = "dropped"
  /\ pc[Main] = "done"
  /\ cursorState # kCursorStateStay
  /\ takeScreenshot
  /\ videos # <<>>

(* ------------------------------ C6: a reverted change ----------------- *)

\* The call of the main thread went through a revert that the platform
\* accepted.
RevertSucceeded == "revert" \in Range(trail) /\ ~screen.null

\* C6: once a reconfiguration that the platform rejected has been reverted
\* with success, the width, the height, the fullscreen flag and the
\* antialiasing level are what they were before the call, up to and after
\* its return, and no object was told of a changed resolution.
C6_RevertRestoresConfiguration ==
  RevertSucceeded => (pre.set /\ Snapshot = pre /\ chres = {})

\* A call has returned after a revert and the rebuild, with objects in the
\* GUI-front queue.
C6_Witness ==
  /\ pc[Main] = "done"
  /\ trail = Reverted
  /\ ret[Main] # "exception"
  /\ guiFrontObjects # <<>>
  /\ Snapshot = pre

(* ------------------------------ C7, C8: setFSAA ----------------------- *)

\* The main thread starts setFSAA(level), called by itself or for the
\* request of another thread.
FSAACall(level) ==
  \/ setFSAA(Main, level)
  \/ /\ requests # <<>>
     /\ Head(requests).op = "fsaa"
     /\ Head(requests).a[1] = level
     /\ processRequest(Main)

\* C7: setFSAA(level) with a level above the maximum returns false at once
\* and changes neither the level nor the surface nor any resource; the
\* level is never above the maximum, and a requester on another thread gets
\* false as well.
C7_UnsupportedLevelRefused ==
  /\ [](fsaa <= fsaaMax)
  /\ [][\A level \in Levels :
          (FSAACall(level) /\ level > fsaaMax) =>
            /\ pc'[Main] = "done"
            /\ ret'[Main] = "false"
            /\ trail' = <<>>
            /\ UNCHANGED <<surfaceVars, queueVars, res, gpuThreads>>]_vars
  /\ [][\A t \in Workers :
          (setFSAAReturn(t) /\ arg[t][1] > fsaaMax) =>
            (ret'[t] = "false" /\ UNCHANGED fsaa)]_vars

\* setFSAA() has refused a level while the level is 2, the maximum.
C7_Witness ==
  /\ pc[Main] = "done"
  /\ ret[Main] = "false"
  /\ trail = <<>>
  /\ fsaa = 2
  /\ fsaaMax = 2

\* C8: setFSAA(level) with the level that is set returns true at once:
\* no destroyContext(), no mode change, no rebuildContext(), and the level,
\* the surface, the queues and the resources are unchanged; a requester on
\* another thread gets true while the level is still the one it asked for.
C8_SameLevelIsNoOp ==
  /\ [][\A level \in Levels :
          (FSAACall(level) /\ level = fsaa) =>
            /\ pc'[Main] = "done"
            /\ ret'[Main] = "true"
            /\ trail' = <<>>
            /\ UNCHANGED <<surfaceVars, queueVars, res, gpuThreads>>]_vars
  /\ [][\A t \in Workers :
          (setFSAAReturn(t) /\ arg[t][1] = fsaa) =>
            (ret'[t] = "true" /\ UNCHANGED fsaa)]_vars

\* setFSAA(2) has returned true at level 2 without a step of a
\* reconfiguration, and a resource is built.
C8_Witness ==
  /\ pc[Main] = "done"
  /\ ret[Main] = "true"
  /\ trail = <<>>
  /\ pre = NoPre
  /\ fsaa = 2
  /\ \E r \in ResIds : res[r].gpu = "built"

(* ------------------------------ C11: deinit --------------------------- *)

\* The members of the five queues.
Queued == UNION {Range(getQueue(k)) : k \in Kinds}

C12_Original == ready => ~screen.null

(* ------------------------------ C13: one revert ----------------------- *)

\* The steps of a call whose mode change and whose revert were rejected.
RevertFailed == <<"destroy", "mode", "revert">>

\* A call of the main thread has ended with an exception.
Raised == pc[Main] = "done" /\ ret[Main] = "exception"

IsPrefix(s, u) == Len(s) <= Len(u) /\ s = SubSeq(u, 1, Len(s))

\* C13 (as the code has it): a call makes at most one revert attempt, and
\* only after a rejected mode change.  When the revert is accepted the call
\* goes on to rebuildContext(), and it ends without an exception unless
\* glewInit() fails in rebuildContext().  When the revert is rejected too
\* the call ends with an exception, with the surface null and without
\* rebuildContext().  The exception of a call is either that one or the
\* one of glewInit(), which is raised with a surface.
C13_OneRevertThenRebuildOrError ==
  /\ [](/\ IsPrefix(trail, Accepted) \/ IsPrefix(trail, Reverted)
        /\ (pc[Main] = "done" /\ trail = RevertFailed /\ screen.null)
              => ret[Main] = "exception"
        /\ (pc[Main] = "done" /\ trail # <<>> /\ ret[Main] # "exception")
              => (trail \in {Accepted, Reverted} /\ ~screen.null)
        /\ (Raised /\ trail # <<>>) =>
              \/ trail = RevertFailed /\ screen.null
              \/ trail \in {<<"destroy", "mode">>, RevertFailed} /\ ~screen.null)
  /\ [][(Len(trail') > Len(trail) /\ trail'[Len(trail')] = "revert")
           => screen.null]_vars
  /\ [][(Len(trail') > Len(trail) /\ trail'[Len(trail')] = "rebuild")
           => ~screen.null]_vars

\* The mode change and the revert were rejected: the call has ended with
\* an exception and the resources are still destroyed.
C13_Witness ==
  /\ Raised
  /\ trail = RevertFailed
  /\ screen.null
  /\ \E r \in ResIds : res[r].gpu = "destroyed"

\* C13 as stated: a call raises an error only when the mode change and the
\* revert were both rejected, and none after an accepted revert.
C13_Original ==
  Raised => (trail = RevertFailed /\ screen.null)

(* ------------------------------ C14: changedResolution ---------------- *)

\* The main thread starts setScreenSize(w, h), called by itself or for the
\* request of another thread.
SizeCall(w, h) ==
  \/ setScreenSize(Main, w, h)
  \/ /\ requests # <<>>
     /\ Head(requests).op = "size"
     /\ Head(requests).a = <<w, h>>
     /\ processRequest(Main)

Hits(q, x, y, w, h) ==
  {i \in 1..Len(q) :
     /\ res[q[i]].tag # ""
     /\ isIn(res, q[i], (2 * x - w) \div 2, (2 * (h - y) - h) \div 2)}

Greatest(S) == CHOOSE i \in S : \A j \in S : j <= i

\* C15: getObjectAt(x, y) returns the tag of the tagged object containing
\* the point that is last in the draw order the call leaves the GUI-front
\* queue in (untagged objects drawn later are passed over), and the empty
\* tag when no tagged object contains the point.
C15_TopmostTaggedObject ==
  [][\A t \in Threads : \A x \in Xs : \A y \in Ys :
       (getObjectAt(t, x, y) /\ ~aborted') =>
         LET q == guiFrontObjects'
             H == Hits(q, x, y, screen.w, screen.h)
         IN  /\ ret'[t] = IF H = {} THEN "" ELSE res[q[Greatest(H)]].tag
             /\ \A i, j \in 1..Len(q) :
                  i < j => res[q[i]].distance >= res[q[j]].distance]_vars

\* A hit test has returned the tag of the nearer of two tagged objects that
\* both contain the point.
C15_Witness ==
  /\ Len(guiFrontObjects) = 2
  /\ res[guiFrontObjects[1]].tag = "button"
  /\ res[guiFrontObjects[1]].rect = "all"
  /\ res[guiFrontObjects[1]].distance = 2
  /\ res[guiFrontObjects[2]].tag = "label"
  /\ res[guiFrontObjects[2]].distance = 1
  /\ guiFrontObjects[1] > guiFrontObjects[2]
  /\ \E t \in Threads : pc[t] = "done" /\ ret[t] = "label"

(* ------------------------------ C16: sorted queues -------------------- *)

\* The members of q in non-increasing order of distance.
Descending(rs, q) ==
  \A i, j \in 1..Len(q) : i < j => rs[q[i]].distance >= rs[q[j]].distance

\* q and u have the same members, each as often.
SameMembers(q, u) ==
  /\ Len(q) = Len(u)
  /\ \A r \in ResIds : Occurrences(q, r) = Occurrences(u, r)

\* The members drawn by the events of a name, in the order of the log.
Drawn(log, name) ==
  LET sel == SelectSeq(log, LAMBDA e : e[1] = name)
  IN  [i \in 1..Len(sel) |-> sel[i][2]]

\* C16: the sort of renderScene() leaves the world queue and the GUI-front
\* queue in non-increasing order of distance with the members they had, and
\* the frame draws each queue in that order; the sort of getObjectAt() does
\* the same for the GUI-front queue.
C16_SortedByDescendingDistance ==
  /\ [][\A t \in Threads :
          (renderSceneScene(t) /\ ~aborted') =>
            /\ Descending(res, objects') /\ SameMembers(objects', objects)
            /\ Descending(res, guiFrontObjects')
            /\ SameMembers(guiFrontObjects', guiFrontObjects)
            /\ Drawn(frame'.log, "world") = objects'
            /\ Drawn(frame'.log, "guiFront") = guiFrontObjects']_vars
  /\ [][\A t \in Threads : \A x \in Xs : \A y \in Ys :
          getObjectAt(t, x, y) =>
            /\ Descending(res, guiFrontObjects')
            /\ SameMembers(guiFrontObjects', guiFrontObjects)
            /\ objects' = objects]_vars

\* A frame has drawn the world objects after its sort moved the farther
\* object, registered last, to the front.
C16_Witness ==
  /\ pc[Main] = "rs_finish"
  /\ Len(objects) = 2
  /\ objects[1] > objects[2]
  /\ res[objects[1]].distance > res[objects[2]].distance
  /\ Drawn(frame.log, "world") = objects

(* ------------------------------ C17: the video loop ------------------- *)

\* How often the frame has rendered the video v.
Renders(v) == Occurrences(frame.log, Event("video", v))

\* C17: when the video loop of a frame is over, the videos mutex still
\* held, every video left in the queue has been rendered once in the
\* frame, and no video has been rendered twice.
C17_Original ==
  (frame.path = "video" /\ pc[Main] = "rs_finish") =>
    /\ \A v \in Range(videos) : Renders(v) = 1
    /\ \A v \in ResIds : Renders(v) <= 1

(* ------------------------------ C18: destroy and rebuild -------------- *)

\* The destroyContext() step and the rebuildContext() step of a call.
DestroyStep ==
  \E t \in Threads :
    setFSAADestroy(t) \/ setFullScreenDestroy(t) \/ setScreenSizeDestroy(t)

RebuildStep ==
  /\ \E t \in Threads :
       setFSAARebuild(t) \/ setFullScreenRebuild(t) \/ setScreenSizeRebuild(t)
  /\ Len(trail') > Len(trail)

\* The calls are made kind by kind, in the order of kinds.
InKindOrder(calls, kinds) ==
  \A i, j \in 1..Len(calls) :
    i < j => \E a, b \in 1..Len(kinds) :
               /\ a <= b
               /\ res[calls[i][2]].kind = kinds[a]
               /\ res[calls[j][2]].kind = kinds[b]

\* One call for every member of the three queues and for nobody else.
OncePerMember(calls) ==
  /\ \A r \in Range(videos) \cup Range(listContainers) \cup Range(textures) :
       Cardinality({i \in 1..Len(calls) : calls[i][2] = r}) = 1
  /\ Len(calls) = Len(videos) + Len(listContainers) + Len(textures)

\* The resources after the calls were made.
AfterCalls(rs, calls, state) ==
  [r \in ResIds |-> IF \E i \in 1..Len(calls) : calls[i][2] = r
                      THEN [rs[r] EXCEPT !.gpu = state] ELSE rs[r]]

Traversing(t) ==
  IF pc[t] = "rs_video" THEN {"video"}
  ELSE IF pc[t] = "rs_scene" THEN {"object", "guiFront"}
  ELSE IF pc[t] = "ss_loop" THEN {"guiFront"}
  ELSE {}

\* C19: a thread that is walking the list of a queue holds the mutex of
\* that queue, and while it walks, no step of another thread changes the
\* list.  The loop of setScreenSize() that tells the GUI-front objects of
\* the new size walks _guiFrontObjects.list without the mutex, and an
\* object that joins or leaves the queue from another thread changes the
\* list under it.
C19_Original ==
  /\ [](\A t \in Threads : \A k \in Traversing(t) : mutex[k] = {t})
  /\ [][\A t \in Threads : \A k \in Traversing(t) :
          (getQueue(k)' # getQueue(k)) => (pc'[t] # pc[t] \/ old'[t] # old[t])]_vars


(* ------------------- C20: the order of the mutexes -------------------- *)

\* The order in which the queue mutexes that are held together are taken.
LockOrder == <<"video", "object", "guiFront">>

Rank(k) == CHOOSE i \in 1..Len(LockOrder) : LockOrder[i] = k

\* The queue mutexes thread t holds.
Held(t) == {k \in Kinds : t \in mutex[k]}

\* The queue mutex thread t is about to lock, inside a call that has
\* already locked something.
Wants(t) ==
  IF pc[t] = "rs_videosLock" THEN {"video"}
  ELSE IF pc[t] = "rs_objectsLock" THEN {"object"}
  ELSE IF pc[t] = "rs_guiFrontLock" THEN {"guiFront"}
  ELSE IF pc[t] = "cq_guiFrontLock" THEN {clearRenderQueueLocks[2]}
  ELSE {}

\* Thread t waits for a mutex that another thread holds.
Blocked(t) == \E k \in Wants(t) : ~Free(k)

\* C20: a thread locks a queue mutex only while every queue mutex it
\* already holds comes earlier in the order videos, objects, GUI-front; it
\* takes the frame lock only while it holds no queue mutex; and a thread
\* that waits for a queue mutex waits for a thread that is not itself
\* waiting, so that renderScene(), clearRenderQueue(), getObjectAt(), the
\* per-queue clears, the constructions and the frame lock never reach a
\* state in which threads wait for each other.
C20_LockOrderNoDeadlock ==
  /\ [][\A t \in Threads : \A k \in Held(t)' \ Held(t) :
          /\ k \in Range(LockOrder)
          /\ \A j \in Held(t) : j \in Range(LockOrder) /\ Rank(j) < Rank(k)]_vars
  /\ [][\A t \in Threads :
          (t \in frameSemaphore' /\ t \notin frameSemaphore) => Held(t) = {}]_vars
  /\ [](\A t \in Threads : \A k \in Wants(t) : \A u \in mutex[k] :
          u # t /\ ~Blocked(u))

\* renderScene() holds the video mutex and waits for the mutex of the world
\* objects, which a clearRenderQueue() of another thread holds while it is
\* about to lock the GUI-front queue.
C20_Witness ==
  \E t \in Threads, u \in Threads :
    /\ pc[t] = "rs_objectsLock"
    /\ Held(t) = {"video"}
    /\ t \in frameSemaphore
    /\ pc[u] = "cq_guiFrontLock"
    /\ Held(u) = {"object"}
    /\ Blocked(t)


(* ------------------- C21: who delivers kickedOut ---------------------- *)

\* A step of destroyContext() or of rebuildContext().
ContextStep ==
  \/ DestroyStep
  \/ \E t \in Threads :
       setFSAARebuild(t) \/ setFullScreenRebuild(t) \/ setScreenSizeRebuild(t)

\* The resources that receive a kickedOut in the step.
Kicked == {r \in ResIds : res'[r].kicked # res[r].kicked}

\* A step of one of the clear operations, or of deinit(), which calls them.
ClearOrDeinitStep ==
  \/ \E k \in Kinds : ClearStep(k)
  \/ \E t \in Threads : deinit(t)

\* C21 (as the code has it): destroyContext() and rebuildContext() deliver
\* no kickedOut and leave the membership of every queue as it is; a
\* kickedOut is delivered, once, by a clear operation (also when deinit()
\* calls it) or by the video loop of renderScene(), which destroys,
\* notifies and removes a video that has finished playing.
C21_EvictionByClearOrFinishedVideo ==
  /\ [][ContextStep => (Kicked = {} /\ UNCHANGED queueVars)]_vars
  /\ [][Kicked # {} =>
          /\ \A r \in Kicked : res'[r].kicked = res[r].kicked + 1
          /\ \/ ClearOrDeinitStep
             \/ /\ \E t \in Threads : renderSceneVideo(t)
                /\ \A r \in Kicked :
                     /\ res[r].kind = "video"
                     /\ r \in Range(videos) \ Range(videos')
                     /\ res'[r].gpu = "destroyed"]_vars

\* The video loop of a frame has kicked out a finished video, while a
\* texture that destroyContext() destroyed (no rebuildContext() followed,
\* the call ended with an exception) is still queued and was never kicked
\* out.
C21_Witness ==
  /\ frame.path = "video"
  /\ pc[Main] \in {"rs_video", "rs_finish"}
  /\ \E v \in ResIds :
       /\ res[v].kind = "video"
       /\ Renders(v) = 1
       /\ res[v].kicked = 1
       /\ v \notin Range(videos)
  /\ \E r \in Range(textures) :
       /\ res[r].gpu = "destroyed"
       /\ res[r].kicked = 0

\* C21 (as stated): only a clear operation delivers kickedOut.
C21_Original == [][Kicked # {} => ClearOrDeinitStep]_vars


(* ------------------- C22: the cursor switch --------------------------- *)

\* The SDL_ShowCursor() calls of the frame so far.
ShowCalls(f) ==
  Occurrences(f.log, Event("SDL_ShowCursor", 1))
    + Occurrences(f.log, Event("SDL_ShowCursor", 0))

\* A showCursor() request waits to be applied.
SwitchPending == cursorState # kCursorStateStay

\* C22: a frame makes at most one SDL_ShowCursor() call.  A frame that
\* finds the state at stay goes on without handleCursorSwitch(), and only
\* handleCursorSwitch() makes the call; it makes one call, with the value
\* of the request that showCursor() stored last, and resets the state to
\* stay, so the request is not applied again.  When renderScene() keeps
\* getting the frame lock, a pending request does not stay pending: a later
\* rendered frame applies the request that is the last one at that moment.
C22_SwitchAppliedOncePerFrame ==
  /\ [](ShowCalls(frame) <= 1)
  /\ [](\A t \in Threads : pc[t] = "rs_cursorSwitch" => SwitchPending)
  /\ [][\A t \in Threads :
          /\ (renderSceneVideosLock(t) /\ ~SwitchPending) => pc'[t] = "rs_clear"
          /\ (renderSceneVideosLock(t) /\ SwitchPending) => pc'[t] = "rs_cursorSwitch"
          /\ handleCursorSwitch(t) =>
               /\ frame'.log = Append(frame.log,
                     Event("SDL_ShowCursor",
                           IF cursorState = kCursorStateSwitchOn THEN 1 ELSE 0))
               /\ cursorState' = kCursorStateStay
          /\ \A show \in BOOLEAN : showCursor(t, show) =>
               cursorState' = IF show THEN kCursorStateSwitchOn
                              ELSE kCursorStateSwitchOff]_vars
  /\ [][ShowCalls(frame') # ShowCalls(frame) =>
          \/ \E t \in Threads : handleCursorSwitch(t)
          \/ ShowCalls(frame') = 0]_vars
  /\ ([]<><<renderSceneLocked(Main)>>_vars) => (SwitchPending ~> ~SwitchPending)

\* A frame has hidden the cursor, and a request to show it, made by
\* another thread while the frame was going on, waits for the next frame.
C22_Witness ==
  /\ pc[Main] = "rs_finish"
  /\ Occurrences(frame.log, Event("SDL_ShowCursor", 0)) = 1
  /\ cursorState = kCursorStateSwitchOn


(* ------------------- C23: the order of a normal frame ----------------- *)

\* The place of an event in the order of a normal frame.
Phase(e) ==
  CASE e[1] = "newFrame" -> 1
    [] e[1] = "world" -> 2
    [] e[1] = "guiFront" -> 3
    [] e[1] = "cursor" -> 4
    [] e[1] = "SDL_GL_SwapBuffers" -> 5
    [] e[1] = "takeScreenshot" -> 6
    [] e[1] = "finishedFrame" -> 7
    [] OTHER -> 0

\* The events of the log come phase by phase.
InPhaseOrder(log) ==
  \A i, j \in DOMAIN log : i < j => Phase(log[i]) <= Phase(log[j])

\* How many events of a name the log holds.
Count(log, name) == Cardinality({i \in DOMAIN log : log[i][1] = name})

\* C23: the log of a frame on the normal path is in the order newFrame,
\* draws of world objects, draws of GUI-front objects, cursor, swap of the
\* buffers, screenshot, finishedFrame.  The scene step tells every member
\* of the world queue and of the GUI-front queue once of the new frame, in
\* the order the queues had before the sort, draws every member once in
\* the sorted order of its queue, and draws the cursor once when one is
\* set and not otherwise; the end of the frame swaps the buffers once and
\* then records the frame once.
C23_NormalFrameOrder ==
  /\ [](frame.path = "normal" => InPhaseOrder(frame.log))
  /\ [][\A t \in Threads :
          (renderSceneScene(t) /\ ~aborted') =>
            /\ Drawn(frame'.log, "newFrame") = objects \o guiFrontObjects
            /\ \A r \in ResIds :
                 /\ Occurrences(frame'.log, Event("newFrame", r))
                      = Occurrences(objects \o guiFrontObjects, r)
                 /\ Occurrences(frame'.log, Event("world", r))
                      = Occurrences(objects, r)
                 /\ Occurrences(frame'.log, Event("guiFront", r))
                      = Occurrences(guiFrontObjects, r)
            /\ Descending(res, Drawn(frame'.log, "world"))
            /\ Descending(res, Drawn(frame'.log, "guiFront"))
            /\ Count(frame'.log, "cursor") = IF cursor THEN 1 ELSE 0
            /\ Count(frame'.log, "SDL_GL_SwapBuffers") = 0]_vars
  /\ [][\A t \in Threads :
          (renderSceneFinish(t) /\ frame.path = "normal") =>
            /\ Count(frame'.log, "SDL_GL_SwapBuffers") = 1
            /\ Count(frame'.log, "finishedFrame") = 1
            /\ Count(frame'.log, "takeScreenshot") = IF takeScreenshot THEN 1 ELSE 0
            /\ frame'.log[Len(frame'.log)] = Event("finishedFrame", 0)
            /\ SubSeq(frame'.log, 1, Len(frame.log)) = frame.log]_vars

\* A finished normal frame: the farther world object, registered last, was
\* told of the frame second and drawn first; then came the cursor, the
\* swap and the record of the frame.
C23_Witness ==
  /\ pc[Main] = "rs_return"
  /\ frame.path = "normal"
  /\ Len(objects) = 2
  /\ res[objects[1]].distance > res[objects[2]].distance
  /\ Drawn(frame.log, "newFrame") = <<objects[2], objects[1]>>
  /\ Drawn(frame.log, "world") = objects
  /\ Count(frame.log, "cursor") = 1
  /\ Count(frame.log, "finishedFrame") = 1


(* ------------------- C24: the frame lock of renderScene() ------------- *)

\* The positions of renderScene() between its lockTry() and its unlock().
LockedFramePcs ==
  {"rs_videosLock", "rs_cursorSwitch", "rs_clear", "rs_video",
   "rs_objectsLock", "rs_guiFrontLock", "rs_scene", "rs_finish"}

GoneVideos ==
  {r \in ResIds : res[r].kind = "video" /\ r \notin Range(videos)}

\* The frame has kicked out the video v.
KickedByFrame(v) == Occurrences(frame.log, Event("kickedOut", v)) > 0

\* C25: the video loop of renderScene() destroys and notifies a finished
\* video once and takes it out of the queue; a video gets at most one
\* kickedOut in its life, a video that got one is not a member, and no
\* later step (a frame, destroyContext(), rebuildContext(),
\* clearVideoQueue(), deinit()) changes a video that is not a member: it
\* is not destroyed or notified again and it is not rebuilt.
C25_VideoKickedOutAtMostOnce ==
  /\ [](\A r \in ResIds : res[r].kind = "video" => res[r].kicked <= 1)
  /\ [](\A r \in ResIds :
          (res[r].kind = "video" /\ res[r].kicked = 1) =>
            (r \in GoneVideos /\ res[r].gpu = "destroyed"))
  /\ [](\A r \in ResIds : Occurrences(videos, r) <= 1)
  /\ [][\A t \in Threads :
          renderSceneVideo(t) =>
            \A r \in Range(videos) \ Range(videos') :
              /\ res[r].kicked = 0
              /\ res'[r].kicked = 1
              /\ res'[r].gpu = "destroyed"
              /\ KickedByFrame(r)']_vars
  /\ [][\A r \in GoneVideos : res'[r] = res[r]]_vars

\* The frame kicked out the finished video v, and after the frame a clear
\* of the video queue kicked out the video u, which was constructed after
\* v: v still has its one kickedOut.
C25_Witness ==
  /\ pc[Main] = "done"
  /\ \E v \in ResIds, u \in ResIds :
       /\ v < u
       /\ res[u].kind = "video"
       /\ KickedByFrame(v)
       /\ ~KickedByFrame(u)
       /\ res[v].kicked = 1
       /\ res[u].kicked = 1

====
